---------------------------- MODULE Spec2Model ----------------------------
(***************************************************************************)
(* SQLBuddy: the query-safety validator (sqlbuddy/utils/validators.py),    *)
(* the LLM response parser and the generation calls                        *)
(* (sqlbuddy/llm/query_generator.py, sqlbuddy/sqlbuddy.py), the execution  *)
(* gate and the schema cache (sqlbuddy/sqlbuddy.py), the database          *)
(* connector (sqlbuddy/core/connector.py) and the schema extractor         *)
(* (sqlbuddy/core/schema_extractor.py).                                    *)
(*                                                                         *)
(* Python str values are TLA+ strings; a character is a string of length   *)
(* one.  The regular expressions of the source are kept as syntax trees    *)
(* and matched by a small engine that follows Python's re semantics.       *)
(***************************************************************************)
EXTENDS Naturals, Integers, Sequences, FiniteSets, TLC

VARIABLES
    pc,                 \* position of the modelled call: "start" or "done"
    query,              \* argument: the SQL text
    allow_destructive,  \* argument: allow_destructive
    validate,           \* argument: validate (SQLBuddy.execute_query)
    response,           \* argument: the text the language model returned
    result,             \* value returned by the call
    connector_calls,    \* the calls DatabaseConnector.execute_query received
    llm_responses,      \* the texts the language model returned, in order
    pattern_tables,     \* the class attributes DANGEROUS_PATTERNS, INJECTION_PATTERNS
    heap,               \* the report dictionaries created so far, by reference
    frames,             \* for each thread, the locals of its call of validate_query
    returned,           \* the calls that returned: arguments, reference and value
    llm_errors,         \* the calls of the language model that raised, by position
    connector,          \* a DatabaseConnector: its attributes
    twin,               \* a second DatabaseConnector
    connections,        \* the connections the driver opened, in order
    exposed,            \* what get_connection_info and repr returned, per connector
    catalog,            \* the tables of the database, as its catalog describes them
    schema_cache,       \* SchemaExtractor._schema_cache
    call,               \* the last call made on the object under study
    trail,              \* the calls of the driver the last call made, in order
    cached_schema,      \* SQLBuddy._cached_schema
    cached_schema_formatted     \* SQLBuddy._cached_schema_formatted

\* the state of concurrent calls of validate_query
call_vars == <<pattern_tables, heap, frames, returned>>

\* what the services around SQLBuddy did and hold
service_vars == <<llm_errors, connector, twin, connections, exposed, catalog,
                  schema_cache, call, trail>>

\* the schema a SQLBuddy holds
schema_vars == <<cached_schema, cached_schema_formatted>>

vars == <<pc, query, allow_destructive, validate, response, result, connector_calls,
          llm_responses, call_vars, service_vars, schema_vars>>

---------------------------------------------------------------------------
(* Characters and str methods                                              *)

\* Python's None and a value that is not None
None == <<>>
Some(x) == <<x>>

Ch(s, i) == SubSeq(s, i, i)

UpperOf == [a |-> "A", b |-> "B", c |-> "C", d |-> "D", e |-> "E", f |-> "F",
            g |-> "G", h |-> "H", i |-> "I", j |-> "J", k |-> "K", l |-> "L",
            m |-> "M", n |-> "N", o |-> "O", p |-> "P", q |-> "Q", r |-> "R",
            s |-> "S", t |-> "T", u |-> "U", v |-> "V", w |-> "W", x |-> "X",
            y |-> "Y", z |-> "Z"]

LowerLetters == DOMAIN UpperOf
UpperLetters == {UpperOf[c] : c \in LowerLetters}
Digits == {"0", "1", "2", "3", "4", "5", "6", "7", "8", "9"}

\* the characters str.strip(), str.split() and the class \s take for whitespace
SpaceChars == {" ", "\t", "\n", "\r"}
\* the class \w
WordChars == LowerLetters \cup UpperLetters \cup Digits \cup {"_"}

UpperChar(c) == IF c \in LowerLetters THEN UpperOf[c] ELSE c

LowerChar(c) ==
    IF c \in UpperLetters THEN CHOOSE l \in LowerLetters : UpperOf[l] = c ELSE c

\* str.upper(), character by character (halving keeps the recursion shallow)
RECURSIVE upper(_)
upper(s) ==
    IF Len(s) <= 1 THEN UpperChar(s)
    ELSE LET h == Len(s) \div 2
         IN  upper(SubSeq(s, 1, h)) \o upper(SubSeq(s, h + 1, Len(s)))

\* str.lower()
RECURSIVE lower(_)
lower(s) ==
    IF Len(s) <= 1 THEN LowerChar(s)
    ELSE LET h == Len(s) \div 2
         IN  lower(SubSeq(s, 1, h)) \o lower(SubSeq(s, h + 1, Len(s)))

\* str.count(c) for a one-character c
count(s, c) == Cardinality({i \in 1..Len(s) : Ch(s, i) = c})

\* sub in s
contains(s, sub) ==
    \E i \in 1..(Len(s) + 1) :
        /\ i + Len(sub) - 1 <= Len(s)
        /\ SubSeq(s, i, i + Len(sub) - 1) = sub

\* s.startswith(p), s.endswith(p)
startswith(s, p) == Len(p) <= Len(s) /\ SubSeq(s, 1, Len(p)) = p
endswith(s, p) == Len(p) <= Len(s) /\ SubSeq(s, Len(s) - Len(p) + 1, Len(s)) = p

SetMax(S) == CHOOSE x \in S : \A y \in S : y <= x
SetMin(S) == CHOOSE x \in S : \A y \in S : x <= y

\* str.strip(chars): from the first to the last character not in chars
strip_chars(s, chars) ==
    LET keep == {i \in 1..Len(s) : Ch(s, i) \notin chars}
    IN  IF keep = {} THEN "" ELSE SubSeq(s, SetMin(keep), SetMax(keep))

\* str.strip()
strip(s) == strip_chars(s, SpaceChars)

\* the index of the first "\n" of s, or 0
FirstNewline(s) ==
    LET at == {i \in 1..Len(s) : Ch(s, i) = "\n"}
    IN  IF at = {} THEN 0 ELSE SetMin(at)

\* str.split('\n')
RECURSIVE split_lines(_)
split_lines(s) ==
    LET n == FirstNewline(s)
    IN  IF n = 0 THEN <<s>>
        ELSE <<SubSeq(s, 1, n - 1)>> \o split_lines(SubSeq(s, n + 1, Len(s)))

\* '\n'.join(lines)
RECURSIVE join_lines(_)
join_lines(lines) ==
    IF lines = <<>> THEN ""
    ELSE IF Len(lines) = 1 THEN lines[1]
    ELSE lines[1] \o "\n" \o join_lines(Tail(lines))

---------------------------------------------------------------------------
(* Regular expressions: syntax trees [t, a] and the set of end positions   *)
(* of the matches of a tree that start at a position.  Positions are       *)
(* 1..Len(s)+1, the index of the next character to read.  flags.ic is      *)
(* re.IGNORECASE and flags.dotall is re.DOTALL.                            *)

Lit(str)   == [t |-> "lit",   a |-> str]     \* literal text
Cls(set)   == [t |-> "cls",   a |-> set]     \* one character of a class
Dot        == [t |-> "dot",   a |-> {}]      \* .
Cat(rs)    == [t |-> "cat",   a |-> rs]      \* r1 r2 ... rn
Alt(rs)    == [t |-> "alt",   a |-> rs]      \* r1 | r2 | ... | rn
Star(r)    == [t |-> "star",  a |-> r]       \* r*  (r*? has the same matches)
Plus(r)    == Cat(<<r, Star(r)>>)            \* r+
Opt(r)     == Alt(<<r, Lit("")>>)            \* r?
WordB      == [t |-> "wordb", a |-> {}]      \* \b
EndS       == [t |-> "ends",  a |-> {}]      \* $ (without re.MULTILINE)
EndL       == [t |-> "endl",  a |-> {}]      \* $ (with re.MULTILINE)
Ahead(r)   == [t |-> "ahead", a |-> r]       \* (?=r)

Space == Cls(SpaceChars)                     \* \s
Word  == Cls(WordChars)                      \* \w
Digit == Cls(Digits)                         \* \d

IsWordAt(s, i) == i >= 1 /\ i <= Len(s) /\ Ch(s, i) \in WordChars

RECURSIVE Ends(_, _, _, _), CatEnds(_, _, _, _, _), StarEnds(_, _, _, _, _)

Ends(r, s, i, flags) ==
    CASE r.t = "lit" ->
            LET n == Len(r.a)
            IN  IF /\ i + n - 1 <= Len(s)
                   /\ \A k \in 1..n :
                         IF flags.ic
                         THEN UpperChar(Ch(s, i + k - 1)) = UpperChar(Ch(r.a, k))
                         ELSE Ch(s, i + k - 1) = Ch(r.a, k)
                THEN {i + n} ELSE {}
      [] r.t = "cls" ->
            IF i <= Len(s) /\ Ch(s, i) \in r.a THEN {i + 1} ELSE {}
      [] r.t = "dot" ->
            IF i <= Len(s) /\ (flags.dotall \/ Ch(s, i) # "\n") THEN {i + 1} ELSE {}
      [] r.t = "cat" -> CatEnds(r.a, 1, s, {i}, flags)
      [] r.t = "alt" -> UNION {Ends(r.a[k], s, i, flags) : k \in 1..Len(r.a)}
      [] r.t = "star" -> StarEnds(r.a, s, {i}, {i}, flags)
      [] r.t = "wordb" ->
            IF IsWordAt(s, i - 1) # IsWordAt(s, i) THEN {i} ELSE {}
      [] r.t = "ends" ->
            IF i = Len(s) + 1 \/ (i = Len(s) /\ Ch(s, i) = "\n") THEN {i} ELSE {}
      [] r.t = "endl" ->
            IF i = Len(s) + 1 \/ Ch(s, i) = "\n" THEN {i} ELSE {}
      [] r.t = "ahead" ->
            IF Ends(r.a, s, i, flags) # {} THEN {i} ELSE {}

CatEnds(rs, k, s, from, flags) ==
    IF k > Len(rs) \/ from = {} THEN from
    ELSE CatEnds(rs, k + 1, s, UNION {Ends(rs[k], s, p, flags) : p \in from}, flags)

StarEnds(r, s, frontier, acc, flags) ==
    IF frontier = {} THEN acc
    ELSE LET nxt == UNION {Ends(r, s, p, flags) : p \in frontier} \ acc
         IN  StarEnds(r, s, nxt, acc \cup nxt, flags)

\* re.search(pattern, s, flags) is not None
re_search(r, s, flags) == \E i \in 1..(Len(s) + 1) : Ends(r, s, i, flags) # {}

IGNORECASE == [ic |-> TRUE, dotall |-> FALSE]
DOTALL_IGNORECASE == [ic |-> TRUE, dotall |-> TRUE]

\* The patterns of the response parser have the shape  head \s* (.*?) stop
\* under re.DOTALL.  The match that starts with head at position i: \s* is
\* greedy, so the longest run of whitespace that still leaves a match is
\* tried first, and (.*?) is lazy, so the group ends at the first position
\* where stop matches.  The value is the group's text, or None.
GroupAt(head, stop, s, i, flags) ==
    LET heads == Ends(Lit(head), s, i, flags)
    IN  IF heads = {} THEN None
        ELSE LET p0 == i + Len(head)
                 stops == {e \in p0..(Len(s) + 1) : Ends(stop, s, e, flags) # {}}
                 begins == {a \in Ends(Star(Space), s, p0, flags) :
                               \E e \in stops : e >= a}
             IN  IF begins = {} THEN None
                 ELSE LET a == SetMax(begins)
                          e == SetMin({x \in stops : x >= a})
                      IN  Some(SubSeq(s, a, e - 1))

\* the group of the leftmost match: re.search(...).group(1), and the first
\* element of re.findall(...); None when there is no match
FirstGroup(head, stop, s, flags) ==
    LET starts == {i \in 1..(Len(s) + 1) : GroupAt(head, stop, s, i, flags) # None}
    IN  IF starts = {} THEN None
        ELSE GroupAt(head, stop, s, SetMin(starts), flags)

---------------------------------------------------------------------------
(* QueryValidator (sqlbuddy/utils/validators.py)                           *)

\* Each pattern is its source text (it is quoted in the messages) and its tree.
DangerousDropObject ==
    [src |-> "\\bDROP\\s+(?:TABLE|DATABASE|SCHEMA)\\b",
     re  |-> Cat(<<WordB, Lit("DROP"), Plus(Space),
                   Alt(<<Lit("TABLE"), Lit("DATABASE"), Lit("SCHEMA")>>), WordB>>)]

DangerousTruncate ==
    [src |-> "\\bTRUNCATE\\s+TABLE\\b",
     re  |-> Cat(<<WordB, Lit("TRUNCATE"), Plus(Space), Lit("TABLE"), WordB>>)]

\* DangerousDelete without its end condition: every DELETE FROM <table> matches
DangerousDelete_NoEnd ==
    [src |-> "\\bDELETE\\s+FROM\\s+\\w+\\s*(?:;|$)",
     re  |-> Cat(<<WordB, Lit("DELETE"), Plus(Space), Lit("FROM"), Plus(Space),
                   Plus(Word), Star(Space)>>)]

DangerousDelete ==
    [src |-> "\\bDELETE\\s+FROM\\s+\\w+\\s*(?:;|$)",
     re  |-> Cat(<<WordB, Lit("DELETE"), Plus(Space), Lit("FROM"), Plus(Space),
                   Plus(Word), Star(Space), Alt(<<Lit(";"), EndS>>)>>)]

DangerousUpdate ==
    [src |-> "\\bUPDATE\\s+\\w+\\s+SET\\s+.*(?:;|$)",
     re  |-> Cat(<<WordB, Lit("UPDATE"), Plus(Space), Plus(Word), Plus(Space),
                   Lit("SET"), Plus(Space), Star(Dot), Alt(<<Lit(";"), EndS>>)>>)]

DangerousGrant ==
    [src |-> "\\bGRANT\\b", re |-> Cat(<<WordB, Lit("GRANT"), WordB>>)]

DangerousRevoke ==
    [src |-> "\\bREVOKE\\b", re |-> Cat(<<WordB, Lit("REVOKE"), WordB>>)]

DangerousAlterTable ==
    [src |-> "\\bALTER\\s+TABLE\\b",
     re  |-> Cat(<<WordB, Lit("ALTER"), Plus(Space), Lit("TABLE"), WordB>>)]

DangerousCreatePrincipal ==
    [src |-> "\\bCREATE\\s+(?:USER|ROLE)\\b",
     re  |-> Cat(<<WordB, Lit("CREATE"), Plus(Space),
                   Alt(<<Lit("USER"), Lit("ROLE")>>), WordB>>)]

DangerousDropPrincipal ==
    [src |-> "\\bDROP\\s+(?:USER|ROLE)\\b",
     re  |-> Cat(<<WordB, Lit("DROP"), Plus(Space),
                   Alt(<<Lit("USER"), Lit("ROLE")>>), WordB>>)]

DANGEROUS_PATTERNS ==
    <<DangerousDropObject, DangerousTruncate, DangerousDelete, DangerousUpdate,
      DangerousGrant, DangerousRevoke, DangerousAlterTable,
      DangerousCreatePrincipal, DangerousDropPrincipal>>

InjectionSeparator ==
    [src |-> "(?:;|--|\\#|\\/\\*|\\*\\/)",
     re  |-> Alt(<<Lit(";"), Lit("--"), Lit("#"), Lit("/*"), Lit("*/")>>)]

InjectionBoolean ==
    [src |-> "(?:'|\\\")(?:\\s*(?:OR|AND)\\s*(?:'|\\d))",
     re  |-> Cat(<<Alt(<<Lit("'"), Lit("\"")>>), Star(Space),
                   Alt(<<Lit("OR"), Lit("AND")>>), Star(Space),
                   Alt(<<Lit("'"), Digit>>)>>)]

InjectionUnion ==
    [src |-> "UNION\\s+(?:ALL\\s+)?SELECT",
     re  |-> Cat(<<Lit("UNION"), Plus(Space),
                   Opt(Cat(<<Lit("ALL"), Plus(Space)>>)), Lit("SELECT")>>)]

InjectionExec ==
    [src |-> "(?:EXEC|EXECUTE)\\s*\\(",
     re  |-> Cat(<<Alt(<<Lit("EXEC"), Lit("EXECUTE")>>), Star(Space), Lit("(")>>)]

INJECTION_PATTERNS ==
    <<InjectionSeparator, InjectionBoolean, InjectionUnion, InjectionExec>>

\* COMMAND_KEYWORDS without SELECT
COMMAND_KEYWORDS_NoSelect ==
    <<"INSERT", "UPDATE", "DELETE", "CREATE", "ALTER", "DROP">>

\* the keywords as if TRUNCATE and REVOKE were commands too
COMMAND_KEYWORDS_WithTruncate ==
    <<"SELECT", "INSERT", "UPDATE", "DELETE", "CREATE", "ALTER", "DROP",
      "TRUNCATE", "REVOKE">>

\* the keywords of the command-presence check
COMMAND_KEYWORDS ==
    <<"SELECT", "INSERT", "UPDATE", "DELETE", "CREATE", "ALTER", "DROP">>

\* the result dictionary as validate_query creates it
NewReport ==
    [is_valid |-> TRUE, errors |-> <<>>, warnings |-> <<>>,
     is_destructive |-> FALSE, is_suspicious |-> FALSE]

\* DangerousScan leaving the loop after the first match
RECURSIVE DangerousScan_FirstOnly(_, _, _, _)
DangerousScan_FirstOnly(rep, k, query_upper, allow) ==
    IF k > Len(DANGEROUS_PATTERNS) THEN rep
    ELSE LET pattern == DANGEROUS_PATTERNS[k]
             hit == re_search(pattern.re, query_upper, IGNORECASE)
         IN  IF ~hit THEN DangerousScan_FirstOnly(rep, k + 1, query_upper, allow)
             ELSE IF ~allow
                  THEN [rep EXCEPT
                          !.is_destructive = TRUE,
                          !.is_valid = FALSE,
                          !.errors = Append(@,
                              "Destructive operation detected: " \o pattern.src
                              \o ". Set allow_destructive=True to bypass this check.")]
                  ELSE [rep EXCEPT
                          !.is_destructive = TRUE,
                          !.warnings = Append(@,
                              "Destructive operation detected: " \o pattern.src)]

\* for pattern in DANGEROUS_PATTERNS, from the k-th pattern on
RECURSIVE DangerousScan(_, _, _, _)
DangerousScan(rep, k, query_upper, allow) ==
    IF k > Len(DANGEROUS_PATTERNS) THEN rep
    ELSE LET pattern == DANGEROUS_PATTERNS[k]
             hit == re_search(pattern.re, query_upper, IGNORECASE)
             nxt == IF ~hit THEN rep
                    ELSE IF ~allow
                         THEN [rep EXCEPT
                                 !.is_destructive = TRUE,
                                 !.is_valid = FALSE,
                                 !.errors = Append(@,
                                     "Destructive operation detected: " \o pattern.src
                                     \o ". Set allow_destructive=True to bypass this check.")]
                         ELSE [rep EXCEPT
                                 !.is_destructive = TRUE,
                                 !.warnings = Append(@,
                                     "Destructive operation detected: " \o pattern.src)]
         IN  DangerousScan(nxt, k + 1, query_upper, allow)

\* InjectionScan rejecting the query on a match
RECURSIVE InjectionScan_Rejects(_, _, _)
InjectionScan_Rejects(rep, k, q) ==
    IF k > Len(INJECTION_PATTERNS) THEN rep
    ELSE LET pattern == INJECTION_PATTERNS[k]
             hit == re_search(pattern.re, q, IGNORECASE)
             nxt == IF ~hit THEN rep
                    ELSE [rep EXCEPT
                            !.is_suspicious = TRUE,
                            !.is_valid = FALSE,
                            !.warnings = Append(@,
                                "Potentially suspicious pattern detected: " \o pattern.src)]
         IN  InjectionScan_Rejects(nxt, k + 1, q)

\* for pattern in INJECTION_PATTERNS, from the k-th pattern on
RECURSIVE InjectionScan(_, _, _)
InjectionScan(rep, k, q) ==
    IF k > Len(INJECTION_PATTERNS) THEN rep
    ELSE LET pattern == INJECTION_PATTERNS[k]
             hit == re_search(pattern.re, q, IGNORECASE)
             nxt == IF ~hit THEN rep
                    ELSE [rep EXCEPT
                            !.is_suspicious = TRUE,
                            !.warnings = Append(@,
                                "Potentially suspicious pattern detected: " \o pattern.src)]
         IN  InjectionScan(nxt, k + 1, q)

\* CommandCheck rejecting the query without recording the reason
CommandCheck_SilentReject(rep, query_upper) ==
    IF ~ \E k \in 1..Len(COMMAND_KEYWORDS) : contains(query_upper, COMMAND_KEYWORDS[k])
    THEN [rep EXCEPT !.is_valid = FALSE]
    ELSE rep

\* if not any(keyword in query_upper for keyword in [...])
CommandCheck(rep, query_upper) ==
    IF ~ \E k \in 1..Len(COMMAND_KEYWORDS) : contains(query_upper, COMMAND_KEYWORDS[k])
    THEN [rep EXCEPT !.is_valid = FALSE,
                     !.errors = Append(@, "No valid SQL command found")]
    ELSE rep

ParenCheck(rep, q) ==
    IF count(q, "(") # count(q, ")")
    THEN [rep EXCEPT !.warnings = Append(@, "Unbalanced parentheses detected")]
    ELSE rep

\* QuoteCheck counting single quotes only
QuoteCheck_SingleOnly(rep, q) ==
    IF count(q, "'") % 2 # 0
    THEN [rep EXCEPT !.warnings = Append(@, "Unbalanced quotes detected")]
    ELSE rep

QuoteCheck(rep, q) ==
    IF count(q, "'") % 2 # 0 \/ count(q, "\"") % 2 # 0
    THEN [rep EXCEPT !.warnings = Append(@, "Unbalanced quotes detected")]
    ELSE rep

\* IsEmptyQuery without the strip(): only the empty string is empty
IsEmptyQuery_NoStrip(q) == q = ""

\* if not query or not query.strip()
IsEmptyQuery(q) == q = "" \/ strip(q) = ""

EmptyReport ==
    [NewReport EXCEPT !.is_valid = FALSE, !.errors = Append(@, "Query is empty")]

\* validate_query leaving after the destructive scan when it found an error
validate_query_ShortCircuit(q, allow) ==
    IF IsEmptyQuery(q) THEN EmptyReport
    ELSE LET query_upper == upper(q)
             r1 == DangerousScan(NewReport, 1, query_upper, allow)
         IN  IF ~r1.is_valid THEN r1
             ELSE QuoteCheck(ParenCheck(CommandCheck(InjectionScan(r1, 1, q),
                                                     query_upper), q), q)

\* QueryValidator.validate_query(query, allow_destructive)
validate_query(q, allow) ==
    IF IsEmptyQuery(q) THEN EmptyReport
    ELSE LET query_upper == upper(q)
             r1 == DangerousScan(NewReport, 1, query_upper, allow)
             r2 == InjectionScan(r1, 1, q)
             r3 == CommandCheck(r2, query_upper)
             r4 == ParenCheck(r3, q)
         IN  QuoteCheck(r4, q)

\* The same method as the steps of a thread.  The report is a dictionary on
\* the heap, the call holds a reference to it, and the pattern tables are
\* read from the class, which all threads share.

\* the body of the destructive loop for one pattern
DangerousBody(rep, pattern, query_upper, allow) ==
    IF ~re_search(pattern.re, query_upper, IGNORECASE) THEN rep
    ELSE IF ~allow
         THEN [rep EXCEPT
                 !.is_destructive = TRUE,
                 !.is_valid = FALSE,
                 !.errors = Append(@,
                     "Destructive operation detected: " \o pattern.src
                     \o ". Set allow_destructive=True to bypass this check.")]
         ELSE [rep EXCEPT
                 !.is_destructive = TRUE,
                 !.warnings = Append(@,
                     "Destructive operation detected: " \o pattern.src)]

\* the class tables hold the pattern texts; re.search compiles a text to the
\* expression it denotes
Compile(src) ==
    LET known == DANGEROUS_PATTERNS \o INJECTION_PATTERNS
    IN  known[CHOOSE k \in 1..Len(known) : known[k].src = src]

\* for pattern in QueryValidator.DANGEROUS_PATTERNS, over the table the
\* class holds, from the k-th pattern on
RECURSIVE DangerousLoop(_, _, _, _, _)
DangerousLoop(patterns, k, rep, query_upper, allow) ==
    IF k > Len(patterns) THEN rep
    ELSE DangerousLoop(patterns, k + 1,
                       DangerousBody(rep, Compile(patterns[k]), query_upper, allow),
                       query_upper, allow)

\* the body of the injection loop for one pattern
InjectionBody(rep, pattern, q) ==
    IF ~re_search(pattern.re, q, IGNORECASE) THEN rep
    ELSE [rep EXCEPT
            !.is_suspicious = TRUE,
            !.warnings = Append(@,
                "Potentially suspicious pattern detected: " \o pattern.src)]

\* for pattern in QueryValidator.INJECTION_PATTERNS, over the table the
\* class holds, from the k-th pattern on
RECURSIVE InjectionLoop(_, _, _, _)
InjectionLoop(patterns, k, rep, q) ==
    IF k > Len(patterns) THEN rep
    ELSE InjectionLoop(patterns, k + 1,
                       InjectionBody(rep, Compile(patterns[k]), q), q)

\* the class attributes as the class statement creates them
ClassTables ==
    [DANGEROUS_PATTERNS |->
        [k \in 1..Len(DANGEROUS_PATTERNS) |-> DANGEROUS_PATTERNS[k].src],
     INJECTION_PATTERNS |->
        [k \in 1..Len(INJECTION_PATTERNS) |-> INJECTION_PATTERNS[k].src]]

\* one dictionary for all calls instead of a new one for each
NewRef_Shared(objects) == 1

\* result = {...}: the reference of the dictionary the display creates
NewRef(objects) == Len(objects) + 1

\* the heap with object at reference ref
Store(objects, ref, object) ==
    IF ref > Len(objects) THEN Append(objects, object)
    ELSE [objects EXCEPT ![ref] = object]

---------------------------------------------------------------------------
(* QueryValidator.sanitize_query (sqlbuddy/utils/validators.py)            *)

MULTILINE == [ic |-> FALSE, dotall |-> FALSE]
DOTALL == [ic |-> FALSE, dotall |-> TRUE]

\* r'--.*$' (with re.MULTILINE) and r'/\*.*?\*/' (with re.DOTALL)
LineComment == Cat(<<Lit("--"), Star(Dot), EndL>>)
BlockComment == Cat(<<Lit("/*"), Star(Dot), Lit("*/")>>)

\* re.sub(r, '', s, flags) from position i on, for a pattern that matches no
\* empty text: the leftmost match is removed, the scan goes on behind it;
\* the match ends at the last end for a greedy quantifier, at the first for
\* a lazy one
RECURSIVE re_sub_empty(_, _, _, _, _)
re_sub_empty(r, lazy, s, i, flags) ==
    LET starts == {p \in i..Len(s) : Ends(r, s, p, flags) # {}}
    IN  IF starts = {} THEN SubSeq(s, i, Len(s))
        ELSE LET p == SetMin(starts)
                 ends == Ends(r, s, p, flags)
                 e == IF lazy THEN SetMin(ends) ELSE SetMax(ends)
             IN  SubSeq(s, i, p - 1) \o re_sub_empty(r, lazy, s, e, flags)

\* str.split(): the maximal runs of characters that are not whitespace
RECURSIVE split(_)
split(s) ==
    LET words == {i \in 1..Len(s) : Ch(s, i) \notin SpaceChars}
    IN  IF words = {} THEN <<>>
        ELSE LET a == SetMin(words)
                 spaces == {i \in a..Len(s) : Ch(s, i) \in SpaceChars}
                 e == IF spaces = {} THEN Len(s) + 1 ELSE SetMin(spaces)
             IN  <<SubSeq(s, a, e - 1)>> \o split(SubSeq(s, e, Len(s)))

\* ' '.join(words)
RECURSIVE join_words(_)
join_words(words) ==
    IF words = <<>> THEN ""
    ELSE IF Len(words) = 1 THEN words[1]
    ELSE words[1] \o " " \o join_words(Tail(words))

\* str.rstrip(chars)
rstrip_chars(s, chars) ==
    LET keep == {i \in 1..Len(s) : Ch(s, i) \notin chars}
    IN  IF keep = {} THEN "" ELSE SubSeq(s, 1, SetMax(keep))

sanitize_query(q) ==
    LET no_line == re_sub_empty(LineComment, FALSE, q, 1, MULTILINE)
        no_block == re_sub_empty(BlockComment, TRUE, no_line, 1, DOTALL)
        normalized == join_words(split(no_block))
    IN  strip(rstrip_chars(normalized, {";"}))

---------------------------------------------------------------------------
(* QueryGenerator._parse_response (sqlbuddy/llm/query_generator.py)        *)

\* A TLA+ string cannot hold the grave accent: the character U+0060 of the
\* code fences is written "~", which no text of the model uses otherwise.
Tick == "~"
Fence == Tick \o Tick \o Tick

\* the pattern  <fence>sql\s*(.*?)\s*<fence>
SqlHead == Fence \o "sql"
SqlStop == Cat(<<Star(Space), Lit(Fence)>>)

\* ExplanationStop without POTENTIAL OPTIMIZATIONS: as a boundary
ExplanationStop_TablesOnly == Ahead(Alt(<<Lit("TABLES USED:"), EndS>>))

\* r"EXPLANATION:\s*(.*?)(?=TABLES USED:|POTENTIAL OPTIMIZATIONS:|$)"
ExplanationHead == "EXPLANATION:"
ExplanationStop ==
    Ahead(Alt(<<Lit("TABLES USED:"), Lit("POTENTIAL OPTIMIZATIONS:"), EndS>>))

\* r"TABLES USED:\s*(.*?)(?=POTENTIAL OPTIMIZATIONS:|$)"
TablesHead == "TABLES USED:"
TablesStop == Ahead(Alt(<<Lit("POTENTIAL OPTIMIZATIONS:"), EndS>>))

\* r"POTENTIAL OPTIMIZATIONS:\s*(.*?)$"
OptHead == "POTENTIAL OPTIMIZATIONS:"
OptStop == EndS

\* the keywords that start the line-by-line fallback
FALLBACK_KEYWORDS == <<"select", "insert", "update", "delete", "create">>

\* FallbackScan without the break: a line ending in ';' does not end the scan
RECURSIVE FallbackScan_NoStop(_, _, _, _)
FallbackScan_NoStop(lines, k, in_sql, sql_lines) ==
    IF k > Len(lines) THEN sql_lines
    ELSE LET line == lines[k]
             line_lower == strip(lower(line))
             now_in == in_sql \/ \E j \in 1..Len(FALLBACK_KEYWORDS) :
                                    contains(line_lower, FALLBACK_KEYWORDS[j])
         IN  IF ~now_in THEN FallbackScan_NoStop(lines, k + 1, FALSE, sql_lines)
             ELSE FallbackScan_NoStop(lines, k + 1, TRUE, Append(sql_lines, line))

\* for line in lines, from the k-th line on
RECURSIVE FallbackScan(_, _, _, _)
FallbackScan(lines, k, in_sql, sql_lines) ==
    IF k > Len(lines) THEN sql_lines
    ELSE LET line == lines[k]
             line_lower == strip(lower(line))
             now_in == in_sql \/ \E j \in 1..Len(FALLBACK_KEYWORDS) :
                                    contains(line_lower, FALLBACK_KEYWORDS[j])
         IN  IF ~now_in THEN FallbackScan(lines, k + 1, FALSE, sql_lines)
             ELSE IF endswith(strip(line), ";") THEN Append(sql_lines, line)
             ELSE FallbackScan(lines, k + 1, TRUE, Append(sql_lines, line))

\* ExtractQuery trying the line-by-line fallback before the fenced block
ExtractQuery_FallbackFirst(resp) ==
    LET sql_lines == FallbackScan(split_lines(resp), 1, FALSE, <<>>)
        sql_match == FirstGroup(SqlHead, SqlStop, resp, DOTALL_IGNORECASE)
    IN  IF sql_lines # <<>> THEN strip(join_lines(sql_lines))
        ELSE IF sql_match # None THEN strip(sql_match[1]) ELSE ""

\* the query: the first fenced block, else the lines of the fallback
ExtractQuery(resp) ==
    LET sql_match == FirstGroup(SqlHead, SqlStop, resp, DOTALL_IGNORECASE)
    IN  IF sql_match # None THEN strip(sql_match[1])
        ELSE LET sql_lines == FallbackScan(split_lines(resp), 1, FALSE, <<>>)
             IN  IF sql_lines # <<>> THEN strip(join_lines(sql_lines)) ELSE ""

ExtractExplanation(resp) ==
    LET m == FirstGroup(ExplanationHead, ExplanationStop, resp, DOTALL_IGNORECASE)
    IN  IF m # None THEN strip(m[1]) ELSE ""

\* [line.strip('- \n') for line in lines if line.strip() and line.strip() != '-']
RECURSIVE TableNames(_)
TableNames(lines) ==
    IF lines = <<>> THEN <<>>
    ELSE LET line == lines[1]
         IN  IF strip(line) # "" /\ strip(line) # "-"
             THEN <<strip_chars(line, {"-", " ", "\n"})>> \o TableNames(Tail(lines))
             ELSE TableNames(Tail(lines))

ExtractTables(resp) ==
    LET m == FirstGroup(TablesHead, TablesStop, resp, DOTALL_IGNORECASE)
    IN  IF m # None THEN TableNames(split_lines(strip(m[1]))) ELSE <<>>

ExtractOptimizations(resp) ==
    LET m == FirstGroup(OptHead, OptStop, resp, DOTALL_IGNORECASE)
    IN  IF m # None THEN strip(m[1]) ELSE ""

\* parse_response keeping the stripped response as raw_response
parse_response_StripsRaw(resp) ==
    LET parsed == [query |-> ExtractQuery(resp),
                   explanation |-> ExtractExplanation(resp),
                   tables_used |-> ExtractTables(resp),
                   optimizations |-> ExtractOptimizations(resp),
                   raw_response |-> strip(resp)]
    IN  IF parsed.query = ""
        THEN [raised |-> TRUE,
              error |-> "Failed to extract SQL query from LLM response. "
                        \o "The response may be in an unexpected format."]
        ELSE [raised |-> FALSE, value |-> parsed]

\* parse_response without the final check: the dictionary is always returned
parse_response_NoRaise(resp) ==
    [raised |-> FALSE,
     value |-> [query |-> ExtractQuery(resp),
                explanation |-> ExtractExplanation(resp),
                tables_used |-> ExtractTables(resp),
                optimizations |-> ExtractOptimizations(resp),
                raw_response |-> resp]]

\* _parse_response(response, db_type): the dictionary it returns, or the
\* QueryGeneratorError it raises
parse_response(resp) ==
    LET parsed == [query |-> ExtractQuery(resp),
                   explanation |-> ExtractExplanation(resp),
                   tables_used |-> ExtractTables(resp),
                   optimizations |-> ExtractOptimizations(resp),
                   raw_response |-> resp]
    IN  IF parsed.query = ""
        THEN [raised |-> TRUE,
              error |-> "Failed to extract SQL query from LLM response. "
                        \o "The response may be in an unexpected format."]
        ELSE [raised |-> FALSE, value |-> parsed]

\* d[key] = val on a dictionary
SetItem(d, key, val) ==
    [k \in DOMAIN d \cup {key} |-> IF k = key THEN val ELSE d[k]]

\* what a call of the client of the language model can do: return a text, or
\* raise (no text is returned then)
ClientReplies(texts) ==
    {[raises |-> FALSE, text |-> t, message |-> ""] : t \in texts}
        \cup {[raises |-> TRUE, text |-> "", message |-> "Connection error."]}

\* the try block of QueryGenerator.generate_query up to the return: the call
\* of the client, then _parse_response on the text it returned
TryBlock(reply) ==
    IF reply.raises THEN [raised |-> TRUE, error |-> reply.message]
    ELSE parse_response(reply.text)

\* QueryGenerator.generate_query, given what the try block did: the parsed
\* dictionary, or the error raised in it (by the client or by the parser)
\* wrapped once more
generate_query(parsed) ==
    IF parsed.raised
    THEN [raised |-> TRUE, error |-> "Failed to generate query: " \o parsed.error]
    ELSE parsed

\* generate_multiple_queries as if the loop ended at the first variation
\* that failed
RECURSIVE generate_multiple_queries_StopsAtFailure(_, _)
generate_multiple_queries_StopsAtFailure(outcomes, i) ==
    IF i > Len(outcomes) THEN <<>>
    ELSE IF outcomes[i].raised
    THEN <<[variation_number |-> i, error |-> outcomes[i].error]>>
    ELSE <<SetItem(outcomes[i].value, "variation_number", i)>>
         \o generate_multiple_queries_StopsAtFailure(outcomes, i + 1)

\* QueryGenerator.generate_multiple_queries: for i in range(num_variations),
\* from the i-th variation on; outcomes[i] is what the i-th call of
\* self.generate_query did
RECURSIVE generate_multiple_queries(_, _)
generate_multiple_queries(outcomes, i) ==
    IF i > Len(outcomes) THEN <<>>
    ELSE <<IF outcomes[i].raised
           THEN [variation_number |-> i, error |-> outcomes[i].error]
           ELSE SetItem(outcomes[i].value, "variation_number", i)>>
         \o generate_multiple_queries(outcomes, i + 1)

\* SQLBuddy.generate_query after the generator returned or raised: the
\* validation report is added when validate is set, an error is raised again
AddValidation(generated, do_validate) ==
    IF generated.raised THEN generated
    ELSE IF do_validate
    THEN [raised |-> FALSE,
          value |-> SetItem(generated.value, "validation",
                            validate_query(generated.value.query, FALSE))]
    ELSE generated

\* SQLBuddy.generate_multiple_queries after the generator returned: for
\* variation in variations, if "query" in variation
ValidateVariations(variations, do_validate) ==
    [raised |-> FALSE,
     variations |->
        [i \in 1..Len(variations) |->
            IF do_validate /\ "query" \in DOMAIN variations[i]
            THEN SetItem(variations[i], "validation",
                         validate_query(variations[i].query, FALSE))
            ELSE variations[i]]]

---------------------------------------------------------------------------
(* SQLBuddy.execute_query (sqlbuddy/sqlbuddy.py)                           *)

\* repr() of a str without quote characters: backslashes doubled, in quotes
EscapeChar(c) == IF c = "\\" THEN "\\\\" ELSE c

RECURSIVE EscapeBackslashes(_)
EscapeBackslashes(s) ==
    IF Len(s) <= 1 THEN EscapeChar(s)
    ELSE LET h == Len(s) \div 2
         IN  EscapeBackslashes(SubSeq(s, 1, h))
             \o EscapeBackslashes(SubSeq(s, h + 1, Len(s)))

PyRepr(s) == "'" \o EscapeBackslashes(s) \o "'"

\* str() of a list of str
RECURSIVE JoinRepr(_)
JoinRepr(seq) ==
    IF seq = <<>> THEN ""
    ELSE IF Len(seq) = 1 THEN PyRepr(seq[1])
    ELSE PyRepr(seq[1]) \o ", " \o JoinRepr(Tail(seq))

ListStr(seq) == "[" \o JoinRepr(seq) \o "]"

\* what DatabaseConnector.execute_query can do with a statement: return the
\* rows the cursor fetched, or raise
ConnectorOutcomes ==
    {[raises |-> FALSE, rows |-> <<>>, message |-> ""],
     [raises |-> FALSE, rows |-> <<"row1", "row2">>, message |-> ""],
     [raises |-> TRUE, rows |-> <<>>, message |-> "(1064, 'You have an error in your SQL syntax')"]}

\* the result dictionary as execute_query creates it
NewExecResult(q) ==
    [query |-> q, success |-> FALSE, data |-> None, row_count |-> 0, error |-> None]

\* the validation block as if validation never blocked the execution
ExecValidation_NoReturn(q, do_validate, allow) ==
    IF ~do_validate THEN [returned |-> FALSE, result |-> NewExecResult(q)]
    ELSE LET validation == validate_query(q, allow)
         IN  [returned |-> FALSE,
              result |-> [query |-> q, success |-> FALSE, data |-> None,
                          row_count |-> 0, error |-> None,
                          validation |-> validation]]

\* the validation block: the result so far, and whether the method returned it
ExecValidation(q, do_validate, allow) ==
    IF ~do_validate THEN [returned |-> FALSE, result |-> NewExecResult(q)]
    ELSE LET validation == validate_query(q, allow)
             res == [query |-> q, success |-> FALSE, data |-> None,
                     row_count |-> 0, error |-> None, validation |-> validation]
         IN  IF ~validation.is_valid
             THEN [returned |-> TRUE,
                   result |-> [res EXCEPT !.error =
                       Some("Query validation failed: " \o ListStr(validation.errors))]]
             ELSE [returned |-> FALSE, result |-> res]

\* is_select = query.upper().strip().startswith('SELECT')
IsSelect(q) == startswith(strip(upper(q)), "SELECT")

\* the call self.connector.execute_query(query, params, fetch=is_select)
ConnectorCall(q) == [query |-> q, fetch |-> IsSelect(q)]

\* the value DatabaseConnector.execute_query returns when it does not raise
ConnectorData(q, outcome) == IF IsSelect(q) THEN Some(outcome.rows) ELSE None

\* the try block as if success were set before the connector is called
ExecTry_SuccessFirst(res, q, outcome) ==
    IF outcome.raises
    THEN [res EXCEPT !.success = TRUE, !.error = Some(outcome.message)]
    ELSE LET data == ConnectorData(q, outcome)
         IN  [res EXCEPT !.success = TRUE,
                         !.data = data,
                         !.row_count = IF data # None /\ data[1] # <<>>
                                       THEN Len(data[1]) ELSE 0]

\* the try block, given what the connector did
ExecTry(res, q, outcome) ==
    IF outcome.raises THEN [res EXCEPT !.error = Some(outcome.message)]
    ELSE LET data == ConnectorData(q, outcome)
         IN  [res EXCEPT !.success = TRUE,
                         !.data = data,
                         !.row_count = IF data # None /\ data[1] # <<>>
                                       THEN Len(data[1]) ELSE 0]

---------------------------------------------------------------------------
(* Inputs                                                                  *)

\* the number of lexicon pieces a generated query is made of, at most
MaxTokens == 2

\* pieces of SQL text; a generated query is a concatenation of pieces
Lexicon ==
    {"DELETE FROM users", "UPDATE users SET a=1", "DROP TABLE users",
     "TRUNCATE TABLE users", "select id from users", " WHERE id=1",
     ";", " ", "\n", "'", "x", "' OR 1", " UNION SELECT 1", "GRANT"}

RECURSIVE Phrases(_)
Phrases(n) ==
    IF n = 0 THEN {""}
    ELSE LET prev == Phrases(n - 1)
         IN  prev \cup {p \o w : p \in prev, w \in Lexicon}

\* the queries of the specification's examples
NamedQueries ==
    {"DROP TABLE users;",
     "SELECT * FROM users",
     "SELECT * FROM users WHERE id = 1;",
     "SELECT * FROM users WHERE id=1 OR '1'='1'",
     "SELECT * FROM users WHERE name = 'O",
     "UPDATE users SET name = 'x' WHERE id = 1",
     "UPDATE users SET name = 'x'",
     "DELETE FROM users WHERE id = 1",
     "DELETE FROM users  ;",
     "delete from Users\nwhere id = 1",
     "TRUNCATE TABLE updates",
     "TRUNCATE TABLE users",
     "REVOKE ALL ON t FROM u",
     "CREATE ROLE r",
     "ALTER TABLE t ADD c; DROP TABLE t",
     "SELECT a FROM t /* c */ WHERE b IN (1, 2",
     "SELECT f(\"a\") FROM t # c",
     "SELECT \"a FROM t",
     "a\" AND 1",
     "exec (1)",
     "SELECT 1 -- c",
     "SELECT (1)",
     "REVOKE ALL ON t FROM u; -- ('",
     "SELECT 'a, \"b FROM t",
     "\t\r\n"}

Queries == NamedQueries \cup Phrases(MaxTokens)

\* the number of lexicon pieces a generated response is made of, at most
MaxPieces == 3

\* pieces of a model response; a generated response is a concatenation
ResponseLexicon ==
    {Fence \o "sql\n", Fence, "SELECT 1;", "select 2", "\n", " ",
     "EXPLANATION:", "TABLES USED:", "- users", "POTENTIAL OPTIMIZATIONS:"}

RECURSIVE ResponsePhrases(_)
ResponsePhrases(n) ==
    IF n = 0 THEN {""}
    ELSE LET prev == ResponsePhrases(n - 1)
         IN  prev \cup {p \o w : p \in prev, w \in ResponseLexicon}

\* the scenario of the specification, the response of test_parse_response,
\* and responses with several blocks, an empty block and no SQL at all
NamedResponses ==
    {"SQL QUERY:\n" \o Fence \o "sql\nSELECT * FROM users WHERE id = 1;\n" \o Fence
        \o "\n\nEXPLANATION:\nFetches one user.\n\nTABLES USED:\n- users\n",
     "\n        SQL QUERY:\n" \o Fence
        \o "sql\n        SELECT * FROM users WHERE id = 1;\n" \o Fence
        \o "\n        \n        EXPLANATION:\n"
        \o "        This query retrieves all columns for user with id 1.\n"
        \o "        \n        TABLES USED:\n        - users\n        ",
     Fence \o "sql\nSELECT 1;\n" \o Fence \o "\ntext\n"
        \o Fence \o "sql\nSELECT 2;\n" \o Fence,
     "select 0;\n" \o Fence \o "SQL  SELECT a\nFROM t;\t\n" \o Fence \o " tail",
     Fence \o "sql\n" \o Fence \o "\nSELECT 3;",
     "intro\nSELECT a\nFROM t;\nmore\n",
     "Tables used:\n- a\n\n - b \n-\n-- c -\na\nPotential Optimizations:\n add index \n",
     "POTENTIAL OPTIMIZATIONS: a\nEXPLANATION: b\nTABLES USED:\nc\nselect 1",
     "no sql here"}

\* pieces of the sections that follow the query in a response
SectionLexicon ==
    {"EXPLANATION:", "TABLES USED:", "POTENTIAL OPTIMIZATIONS:", "\n", " ",
     "- users", "--"}

RECURSIVE SectionPhrases(_)
SectionPhrases(n) ==
    IF n = 0 THEN {""}
    ELSE LET prev == SectionPhrases(n - 1)
         IN  prev \cup {p \o w : p \in prev, w \in SectionLexicon}

\* responses that hold a query and then sections
AnsweredResponses == {"SELECT 1;\n" \o p : p \in SectionPhrases(MaxPieces)}

\* responses with a query and sections of several lines, in either order
NamedAnswers ==
    {"select 1;\nTables Used:\n- users\n\n - orders \n-\n- users\n\torders\n"
        \o "Potential Optimizations:\n add index \n",
     "POTENTIAL OPTIMIZATIONS: a\nEXPLANATION: b\nTABLES USED:\nc\nselect 1",
     Fence \o "sql\nSELECT 1;\n" \o Fence
        \o "\nexplanation:  one row\nof t \npotential optimizations:\nnone\n"
        \o "tables used:\nt - u\n"}

Responses ==
    NamedResponses \cup NamedAnswers \cup ResponsePhrases(MaxPieces)
    \cup AnsweredResponses


---------------------------------------------------------------------------
(* DatabaseConnector (sqlbuddy/core/connector.py)                          *)

SUPPORTED_DATABASES == <<"mysql", "postgresql">>

\* __init__ raises ValueError unless db_type.lower() in SUPPORTED_DATABASES
IsSupported(db_type) ==
    \E i \in DOMAIN SUPPORTED_DATABASES : SUPPORTED_DATABASES[i] = lower(db_type)

\* _get_default_port, given self.db_type
get_default_port(db_type) == IF db_type = "mysql" THEN 3306 ELSE 5432

\* __init__ for a supported db_type and no further keyword arguments: the
\* attributes of the new object; port is None or Some(number), and
\* self.port = port or self._get_default_port()
DatabaseConnector(db_type, host, port, user, password, database) ==
    [db_type |-> lower(db_type),
     host |-> host,
     port |-> IF port # None /\ port[1] # 0 THEN port[1]
              ELSE get_default_port(lower(db_type)),
     user |-> user,
     password |-> password,
     database |-> database,
     _connection |-> None]

\* a connection as pymysql.connect or psycopg2.connect returns it: close()
\* was not called, and the server answers
NewConnection == [closed |-> FALSE, alive |-> TRUE]

\* is_connected: False without a connection, otherwise whether the probe
\* (ping, or SELECT 1 on a cursor) returned without an error of the driver;
\* conns are the connections the driver opened
is_connected(self, conns) ==
    IF self._connection = None THEN FALSE
    ELSE /\ conns[self._connection[1]].alive
         /\ ~conns[self._connection[1]].closed

\* get_connection_info with the password added to the dictionary
get_connection_info_WithPassword(self, conns) ==
    [db_type |-> self.db_type,
     host |-> self.host,
     port |-> self.port,
     user |-> self.user,
     password |-> self.password,
     database |-> self.database,
     is_connected |-> is_connected(self, conns)]

get_connection_info(self, conns) ==
    [db_type |-> self.db_type,
     host |-> self.host,
     port |-> self.port,
     user |-> self.user,
     database |-> self.database,
     is_connected |-> is_connected(self, conns)]

\* __repr__; {self.port} formats the number in decimal
repr(self) ==
    "DatabaseConnector(db_type='" \o self.db_type \o "', "
        \o "host='" \o self.host \o "', port=" \o ToString(self.port) \o ", "
        \o "database='" \o self.database \o "')"

\* The methods that use the connection.  A method is given the object, the
\* connections the driver opened and what the driver does when asked
\* (driver.connect_ok and so on: whether the call returns or raises an error
\* of the driver); its value is the object and the connections afterwards,
\* the calls of the driver it made (with "!" when the call raised), and
\* what it returned or raised.

DriverOutcomes ==
    [connect_ok : BOOLEAN, execute_ok : BOOLEAN, commit_ok : BOOLEAN,
     rollback_ok : BOOLEAN]

ConnectError == "(2003, 'Can not connect to MySQL server')"
ExecuteError == "(1064, 'You have an error in your SQL syntax')"
CommitError == "(1213, 'Deadlock found when trying to get lock')"
RollbackError == "(2006, 'MySQL server has gone away')"

\* the rows fetchall returns
FetchedRows == <<"row1">>

connect(self, conns, driver) ==
    IF driver.connect_ok
    THEN [self |-> [self EXCEPT !._connection = Some(Len(conns) + 1)],
          conns |-> Append(conns, NewConnection),
          trail |-> <<"connect">>,
          raised |-> FALSE, value |-> None]
    ELSE [self |-> self, conns |-> conns,
          trail |-> <<"connect!">>,
          raised |-> TRUE,
          error |-> "Failed to connect to " \o self.db_type \o " database: "
                        \o ConnectError]

disconnect(self, conns) ==
    IF self._connection # None
    THEN [self |-> [self EXCEPT !._connection = None],
          conns |-> [conns EXCEPT ![self._connection[1]].closed = TRUE],
          trail |-> <<"close">>,
          raised |-> FALSE, value |-> None]
    ELSE [self |-> self, conns |-> conns, trail |-> <<>>,
          raised |-> FALSE, value |-> None]

\* the calls is_connected makes
ProbeTrail(self, conns) ==
    IF self._connection = None THEN <<>>
    ELSE IF is_connected(self, conns) THEN <<"ping">> ELSE <<"ping!">>

ensure_connection(self, conns, driver) ==
    IF ~is_connected(self, conns)
    THEN LET connected == connect(self, conns, driver)
         IN  [connected EXCEPT !.trail = ProbeTrail(self, conns) \o @]
    ELSE [self |-> self, conns |-> conns, trail |-> ProbeTrail(self, conns),
          raised |-> FALSE, value |-> None]

\* the except branch of get_cursor: rollback, then raise e
Rollback(driver, error) ==
    IF driver.rollback_ok
    THEN [trail |-> <<"rollback">>, raised |-> TRUE, error |-> error]
    ELSE [trail |-> <<"rollback!">>, raised |-> TRUE, error |-> RollbackError]

\* the with block of execute_query inside get_cursor, from cursor() to
\* cursor.close()
CursorBlock(driver, fetch) ==
    LET body ==
            IF ~driver.execute_ok
            THEN [Rollback(driver, ExecuteError) EXCEPT !.trail = <<"execute!">> \o @]
            ELSE IF ~driver.commit_ok
            THEN [Rollback(driver, CommitError)
                      EXCEPT !.trail = <<"execute", "commit!">> \o @]
            ELSE [trail |-> <<"execute", "commit">>, raised |-> FALSE,
                  value |-> IF fetch THEN Some(FetchedRows) ELSE None]
    IN  [body EXCEPT !.trail = <<"cursor">> \o @ \o <<"cursor.close">>]

\* execute_query through get_cursor
execute_query(self, conns, driver, fetch) ==
    LET ensured == ensure_connection(self, conns, driver)
    IN  IF ensured.raised THEN ensured
        ELSE LET block == CursorBlock(driver, fetch)
             IN  IF block.raised
                 THEN [self |-> ensured.self, conns |-> ensured.conns,
                       trail |-> ensured.trail \o block.trail,
                       raised |-> TRUE, error |-> block.error]
                 ELSE [self |-> ensured.self, conns |-> ensured.conns,
                       trail |-> ensured.trail \o block.trail,
                       raised |-> FALSE, value |-> block.value]

\* test_connection: connect, the test query, and disconnect in the finally
\* clause; the result dictionary is returned in every case
test_connection(self, conns, driver) ==
    LET connected == connect(self, conns, driver)
        queried == IF connected.raised THEN connected
                   ELSE LET executed == execute_query(connected.self, connected.conns,
                                                      driver, TRUE)
                        IN  [executed EXCEPT !.trail = connected.trail \o @]
        closed == disconnect(queried.self, queried.conns)
    IN  [self |-> closed.self, conns |-> closed.conns,
         trail |-> queried.trail \o closed.trail,
         raised |-> FALSE,
         value |->
            IF ~queried.raised
            THEN [success |-> TRUE, message |-> "Connection successful",
                  db_type |-> self.db_type, database |-> self.database,
                  server_info |-> queried.value[1][1]]
            ELSE [success |-> FALSE,
                  message |-> IF connected.raised THEN queried.error
                              ELSE "Unexpected error: " \o queried.error,
                  db_type |-> self.db_type, database |-> self.database]]

---------------------------------------------------------------------------
(* SchemaExtractor (sqlbuddy/core/schema_extractor.py)                     *)
(*                                                                         *)
(* A catalog lists the tables of the database; Rows gives the rows the     *)
(* connector returns for a query of the extractor, with the column names   *)
(* of the SELECT of that query for the database type.                      *)

\* sep.join(seq)
RECURSIVE join(_, _)
join(sep, seq) ==
    IF seq = <<>> THEN ""
    ELSE IF Len(seq) = 1 THEN seq[1]
    ELSE seq[1] \o sep \o join(sep, Tail(seq))

\* s * n
RECURSIVE Repeat(_, _)
Repeat(s, n) == IF n <= 0 THEN "" ELSE s \o Repeat(s, n - 1)

\* the concatenation of the sequences of a sequence
RECURSIVE Flatten(_)
Flatten(seqs) == IF seqs = <<>> THEN <<>> ELSE Head(seqs) \o Flatten(Tail(seqs))

\* [idx for idx in indexes if idx['unique']]
RECURSIVE SelectUnique(_)
SelectUnique(indexes) ==
    IF indexes = <<>> THEN <<>>
    ELSE (IF Head(indexes).unique THEN <<Head(indexes)>> ELSE <<>>)
         \o SelectUnique(Tail(indexes))

\* the queries of one extraction, in the order extract_full_schema issues
\* them: the table names, five per table, the relationships
TableQueries(table_name) ==
    <<[query |-> "COLUMNS", table_name |-> table_name, fetch |-> TRUE],
      [query |-> "PRIMARY KEY", table_name |-> table_name, fetch |-> TRUE],
      [query |-> "FOREIGN KEY", table_name |-> table_name, fetch |-> TRUE],
      [query |-> "INDEXES", table_name |-> table_name, fetch |-> TRUE],
      [query |-> "CONSTRAINTS", table_name |-> table_name, fetch |-> TRUE]>>

ExtractionQueries(table_names) ==
    <<[query |-> "TABLES", table_name |-> "", fetch |-> TRUE]>>
        \o Flatten([i \in 1..Len(table_names) |-> TableQueries(table_names[i])])
        \o <<[query |-> "RELATIONSHIPS", table_name |-> "", fetch |-> TRUE]>>

\* the table of a catalog with a name
CatalogTable(cat, table_name) ==
    cat[CHOOSE i \in 1..Len(cat) : cat[i].name = table_name]

\* the rows the connector returns for a query
Rows(db_type, cat, q) ==
    IF q.query = "TABLES"
    THEN [i \in 1..Len(cat) |->
             IF db_type = "postgresql" THEN [table_name |-> cat[i].name]
             ELSE [TABLE_NAME |-> cat[i].name]]
    ELSE IF q.query = "RELATIONSHIPS"
    THEN Flatten([i \in 1..Len(cat) |->
             [j \in 1..Len(cat[i].foreign_keys) |->
                 [from_table |-> cat[i].name,
                  from_column |-> cat[i].foreign_keys[j].column,
                  to_table |-> cat[i].foreign_keys[j].referenced_table,
                  to_column |-> cat[i].foreign_keys[j].referenced_column,
                  constraint_name |-> cat[i].foreign_keys[j].constraint_name]]])
    ELSE LET table == CatalogTable(cat, q.table_name)
         IN  IF q.query = "COLUMNS"
             THEN [j \in 1..Len(table.columns) |->
                     [column_name |-> table.columns[j].name,
                      data_type |-> table.columns[j].data_type,
                      column_type |-> table.columns[j].column_type,
                      is_nullable |-> IF table.columns[j].nullable THEN "YES" ELSE "NO",
                      column_default |-> table.columns[j].default,
                      column_key |-> table.columns[j].key,
                      extra |-> table.columns[j].extra,
                      column_comment |-> "",
                      max_length |-> table.columns[j].max_length,
                      numeric_precision |-> table.columns[j].numeric_precision,
                      numeric_scale |-> table.columns[j].numeric_scale]]
             ELSE IF q.query = "PRIMARY KEY"
             THEN [j \in 1..Len(table.primary_keys) |->
                     [column_name |-> table.primary_keys[j]]]
             ELSE IF q.query = "FOREIGN KEY"
             THEN [j \in 1..Len(table.foreign_keys) |->
                     [constraint_name |-> table.foreign_keys[j].constraint_name,
                      column_name |-> table.foreign_keys[j].column,
                      referenced_table |-> table.foreign_keys[j].referenced_table,
                      referenced_column |-> table.foreign_keys[j].referenced_column]]
             ELSE IF q.query = "INDEXES"
             THEN [j \in 1..Len(table.indexes) |->
                     [index_name |-> table.indexes[j].name,
                      column_name |-> table.indexes[j].column,
                      non_unique |-> IF db_type = "mysql"
                                     THEN (IF table.indexes[j].unique THEN 0 ELSE 1)
                                     ELSE (IF table.indexes[j].unique THEN 1 ELSE 0),
                      index_type |-> "BTREE"]]
             ELSE [j \in 1..Len(table.constraints) |->
                     [constraint_name |-> table.constraints[j].name,
                      constraint_type |-> table.constraints[j].type]]

\* _get_table_names
get_table_names(db_type, rows) ==
    [i \in 1..Len(rows) |->
        IF db_type = "postgresql" THEN rows[i].table_name ELSE rows[i].TABLE_NAME]

\* if row.get(key): column_info[key] = row[key]
WithOptional(column_info, row, key) ==
    IF row[key] # None /\ row[key][1] # 0
    THEN SetItem(column_info, key, row[key])
    ELSE column_info

\* _get_columns: one dictionary per row
ColumnInfo(db_type, row) ==
    LET column_info ==
            [name |-> row.column_name,
             type |-> row.data_type,
             full_type |-> row.column_type,
             nullable |-> row.is_nullable = "YES",
             default |-> row.column_default]
        with_mysql ==
            IF db_type = "mysql"
            THEN [name |-> column_info.name,
                  type |-> column_info.type,
                  full_type |-> column_info.full_type,
                  nullable |-> column_info.nullable,
                  default |-> column_info.default,
                  key |-> row.column_key,
                  extra |-> row.extra,
                  comment |-> row.column_comment]
            ELSE column_info
    IN  WithOptional(WithOptional(WithOptional(with_mysql, row, "max_length"),
                                  row, "numeric_precision"),
                     row, "numeric_scale")

get_columns(db_type, rows) == [i \in 1..Len(rows) |-> ColumnInfo(db_type, rows[i])]

\* _get_primary_keys
get_primary_keys(rows) == [i \in 1..Len(rows) |-> rows[i].column_name]

\* _get_foreign_keys
get_foreign_keys(rows) ==
    [i \in 1..Len(rows) |->
        [constraint_name |-> rows[i].constraint_name,
         column |-> rows[i].column_name,
         referenced_table |-> rows[i].referenced_table,
         referenced_column |-> rows[i].referenced_column]]

\* _get_indexes
get_indexes(db_type, rows) ==
    [i \in 1..Len(rows) |->
        [name |-> rows[i].index_name,
         column |-> rows[i].column_name,
         unique |-> IF db_type = "mysql" THEN rows[i].non_unique = 0
                    ELSE rows[i].non_unique # 0,
         type |-> rows[i].index_type]]

\* _get_constraints
get_constraints(rows) ==
    [i \in 1..Len(rows) |->
        [name |-> rows[i].constraint_name, type |-> rows[i].constraint_type]]

\* _extract_tables, when no query fails
extract_tables(db_type, cat) ==
    LET table_names ==
            get_table_names(db_type,
                Rows(db_type, cat, [query |-> "TABLES", table_name |-> ""]))
        Q(kind, table_name) ==
            Rows(db_type, cat, [query |-> kind, table_name |-> table_name])
    IN  [i \in 1..Len(table_names) |->
            [name |-> table_names[i],
             columns |-> get_columns(db_type, Q("COLUMNS", table_names[i])),
             primary_keys |-> get_primary_keys(Q("PRIMARY KEY", table_names[i])),
             foreign_keys |-> get_foreign_keys(Q("FOREIGN KEY", table_names[i])),
             indexes |-> get_indexes(db_type, Q("INDEXES", table_names[i])),
             constraints |-> get_constraints(Q("CONSTRAINTS", table_names[i]))]]

\* _extract_relationships, when the query does not fail
extract_relationships(db_type, cat) ==
    LET rows == Rows(db_type, cat, [query |-> "RELATIONSHIPS", table_name |-> ""])
    IN  [i \in 1..Len(rows) |->
            [from_table |-> rows[i].from_table,
             from_column |-> rows[i].from_column,
             to_table |-> rows[i].to_table,
             to_column |-> rows[i].to_column,
             constraint_name |-> rows[i].constraint_name,
             type |-> "foreign_key"]]

\* the dictionary extract_full_schema builds when no query fails; self is
\* the connector
NewSchema(self, cat) ==
    [database |-> self.database,
     db_type |-> self.db_type,
     tables |-> extract_tables(self.db_type, cat),
     relationships |-> extract_relationships(self.db_type, cat)]

\* the message of the error the connector raises when a query fails
QueryError == "(2013, 'Lost connection to MySQL server during query')"

\* extract_full_schema as if the cache were dropped before the queries
extract_full_schema_DropsFirst(self, cache, use_cache, cat, fail_at) ==
    IF use_cache /\ cache # None
    THEN [raised |-> FALSE, value |-> cache[1], cache |-> cache, calls |-> <<>>]
    ELSE LET queries ==
                 ExtractionQueries([i \in 1..Len(cat) |-> cat[i].name])
         IN  IF fail_at \in 1..Len(queries)
             THEN [raised |-> TRUE, error |-> QueryError, cache |-> None,
                   calls |-> SubSeq(queries, 1, fail_at)]
             ELSE [raised |-> FALSE, value |-> NewSchema(self, cat),
                   cache |-> Some(NewSchema(self, cat)), calls |-> queries]

\* extract_full_schema: what it returns or raises, the cache afterwards and
\* the queries the connector received; the fail_at-th query raises (none
\* when fail_at is 0), and the error passes through
extract_full_schema(self, cache, use_cache, cat, fail_at) ==
    IF use_cache /\ cache # None
    THEN [raised |-> FALSE, value |-> cache[1], cache |-> cache, calls |-> <<>>]
    ELSE LET queries ==
                 ExtractionQueries([i \in 1..Len(cat) |-> cat[i].name])
         IN  IF fail_at \in 1..Len(queries)
             THEN [raised |-> TRUE, error |-> QueryError, cache |-> cache,
                   calls |-> SubSeq(queries, 1, fail_at)]
             ELSE [raised |-> FALSE, value |-> NewSchema(self, cat),
                   cache |-> Some(NewSchema(self, cat)), calls |-> queries]

\* get_table_info after schema = self.extract_full_schema()
table_info(schema, table_name) ==
    IF \E i \in 1..Len(schema.tables) : schema.tables[i].name = table_name
    THEN Some(schema.tables[
             SetMin({i \in 1..Len(schema.tables) :
                        schema.tables[i].name = table_name})])
    ELSE None

\* sum(len(table[key]) for table in tables)
RECURSIVE SumLen(_, _)
SumLen(tables, key) ==
    IF tables = <<>> THEN 0
    ELSE Len(Head(tables)[key]) + SumLen(Tail(tables), key)

\* get_schema_summary after schema = self.extract_full_schema()
schema_summary(schema) ==
    [database |-> schema.database,
     db_type |-> schema.db_type,
     total_tables |-> Len(schema.tables),
     total_columns |-> SumLen(schema.tables, "columns"),
     total_relationships |-> Len(schema.relationships),
     total_foreign_keys |-> SumLen(schema.tables, "foreign_keys"),
     total_indexes |-> SumLen(schema.tables, "indexes"),
     table_names |-> [i \in 1..Len(schema.tables) |-> schema.tables[i].name]]

\* stands for the arrow (U+2192) of the source
Arrow == "->"

\* str(value) of a column default
DefaultText(default) == IF default = None THEN "" ELSE " DEFAULT " \o default[1]

\* format_schema_for_llm: the lines appended for one table
FormatTable(table) ==
    <<"\nTable: " \o table.name, Repeat("-", 40)>>
    \o (IF table.primary_keys # <<>>
        THEN <<"Primary Key(s): " \o join(", ", table.primary_keys)>> ELSE <<>>)
    \o <<"\nColumns:">>
    \o [j \in 1..Len(table.columns) |->
           "  - " \o table.columns[j].name \o ": " \o table.columns[j].full_type
               \o " " \o (IF table.columns[j].nullable THEN "NULL" ELSE "NOT NULL")
               \o DefaultText(table.columns[j].default)]
    \o (IF table.foreign_keys # <<>>
        THEN <<"\nForeign Keys:">>
             \o [j \in 1..Len(table.foreign_keys) |->
                    "  - " \o table.foreign_keys[j].column \o " " \o Arrow \o " "
                        \o table.foreign_keys[j].referenced_table \o "."
                        \o table.foreign_keys[j].referenced_column]
        ELSE <<>>)
    \o (IF table.indexes # <<>> /\ SelectUnique(table.indexes) # <<>>
        THEN <<"\nUnique Indexes:">>
             \o [j \in 1..Len(SelectUnique(table.indexes)) |->
                    "  - " \o SelectUnique(table.indexes)[j].name \o " on "
                        \o SelectUnique(table.indexes)[j].column]
        ELSE <<>>)
    \o <<"\n">>

\* format_schema_for_llm after schema = self.extract_full_schema()
format_schema(schema) ==
    join("\n",
        <<"Database: " \o schema.database \o " (" \o schema.db_type \o ")\n",
          Repeat("=", 80), "\n">>
        \o Flatten([i \in 1..Len(schema.tables) |-> FormatTable(schema.tables[i])])
        \o (IF schema.relationships # <<>>
            THEN <<"\nRelationships Summary:", Repeat("-", 40)>>
                 \o [j \in 1..Len(schema.relationships) |->
                        "  " \o schema.relationships[j].from_table \o "."
                            \o schema.relationships[j].from_column \o " " \o Arrow
                            \o " " \o schema.relationships[j].to_table \o "."
                            \o schema.relationships[j].to_column]
            ELSE <<>>))

\* get_table_info, get_schema_summary and format_schema_for_llm: the call of
\* extract_full_schema(), then the value computed from the schema
get_table_info(self, cache, table_name, cat, fail_at) ==
    LET extracted == extract_full_schema(self, cache, TRUE, cat, fail_at)
    IN  IF extracted.raised THEN extracted
        ELSE [extracted EXCEPT !.value = table_info(@, table_name)]

get_schema_summary(self, cache, cat, fail_at) ==
    LET extracted == extract_full_schema(self, cache, TRUE, cat, fail_at)
    IN  IF extracted.raised THEN extracted
        ELSE [extracted EXCEPT !.value = schema_summary(@)]

format_schema_for_llm(self, cache, cat, fail_at) ==
    LET extracted == extract_full_schema(self, cache, TRUE, cat, fail_at)
    IN  IF extracted.raised THEN extracted
        ELSE [extracted EXCEPT !.value = format_schema(@)]

---------------------------------------------------------------------------
(* SQLBuddy and its schema (sqlbuddy/sqlbuddy.py)                          *)
(*                                                                         *)
(* self is the pair of attributes _cached_schema and                       *)
(* _cached_schema_formatted; conn and cache are the connector and the      *)
(* _schema_cache of self.schema_extractor. A call gives what it returns or *)
(* raises, self and the cache afterwards, and the queries the connector    *)
(* received.                                                               *)

\* the attributes after __init__
NewSQLBuddy == [cached_schema |-> None, cached_schema_formatted |-> None]

\* not self._cached_schema: no schema, a schema dictionary is never empty
NotSchema(self) == self.cached_schema = None

\* not self._cached_schema_formatted: no text, or the empty text
NotFormatted(self) ==
    \/ self.cached_schema_formatted = None
    \/ self.cached_schema_formatted[1] = ""

\* the query that raises, counted from the queries still to come
Later(fail_at, calls) == IF fail_at > Len(calls) THEN fail_at - Len(calls) ELSE 0

\* the assignments of load_schema as if a text that is already there were
\* left alone
Reloaded_KeepsText(self, extracted, formatted) ==
    IF extracted.raised THEN extracted @@ [self |-> self]
    ELSE [raised |-> FALSE, value |-> extracted.value,
          self |-> [cached_schema |-> Some(extracted.value),
                    cached_schema_formatted |->
                        IF self.cached_schema_formatted = None
                        THEN Some(formatted.value)
                        ELSE self.cached_schema_formatted],
          cache |-> formatted.cache,
          calls |-> extracted.calls \o formatted.calls]

\* the two assignments of load_schema in their order, given what
\* extract_full_schema(use_cache=False) and then format_schema_for_llm() do;
\* an error ends the call where it is raised
Reloaded(self, extracted, formatted) ==
    IF extracted.raised THEN extracted @@ [self |-> self]
    ELSE IF formatted.raised
    THEN [raised |-> TRUE, error |-> formatted.error,
          self |-> [self EXCEPT !.cached_schema = Some(extracted.value)],
          cache |-> formatted.cache,
          calls |-> extracted.calls \o formatted.calls]
    ELSE [raised |-> FALSE, value |-> extracted.value,
          self |-> [cached_schema |-> Some(extracted.value),
                    cached_schema_formatted |-> Some(formatted.value)],
          cache |-> formatted.cache,
          calls |-> extracted.calls \o formatted.calls]

\* load_schema: under force_reload or without a schema, the extraction and
\* the formatting (each evaluated once); the schema held is returned
load_schema(self, conn, cache, force_reload, cat, fail_at) ==
    IF force_reload \/ NotSchema(self)
    THEN CHOOSE done \in
             UNION {{Reloaded(self, extracted, formatted) :
                         formatted \in
                             {IF extracted.raised THEN extracted
                              ELSE format_schema_for_llm(
                                       conn, extracted.cache, cat,
                                       Later(fail_at, extracted.calls))}} :
                     extracted \in
                         {extract_full_schema(conn, cache, FALSE, cat, fail_at)}} :
             TRUE
    ELSE [raised |-> FALSE, value |-> self.cached_schema[1], self |-> self,
          cache |-> cache, calls |-> <<>>]

\* if not <attribute>: self.load_schema()
LoadIf(missing, self, conn, cache, cat, fail_at) ==
    IF missing THEN load_schema(self, conn, cache, FALSE, cat, fail_at)
    ELSE [raised |-> FALSE, value |-> None, self |-> self, cache |-> cache,
          calls |-> <<>>]

\* a call of the extractor after the statement before it: the queries of
\* the statement come first
AndThen(loaded, read) ==
    [read EXCEPT !.calls = loaded.calls \o @] @@ [self |-> loaded.self]

\* SQLBuddy.generate_query after the schema was loaded if there was no text:
\* the text goes to the generator (schema=self._cached_schema_formatted),
\* whose outcome with the validation added is generation
SQLBuddy_generate_query(loaded, generation) ==
    generation @@ [self |-> loaded.self, cache |-> loaded.cache,
                   calls |-> loaded.calls,
                   prompt |-> loaded.self.cached_schema_formatted]

\* SQLBuddy.connect after test_connection() returned tested and the schema
\* was loaded if it succeeded: tested is returned
SQLBuddy_connect(loaded, tested) == [loaded EXCEPT !.value = tested]

---------------------------------------------------------------------------
(* Calls of QueryValidator.validate_query from several threads             *)

Threads == {"t1", "t2"}

\* the number of calls made in a behaviour, at most
MaxCalls == 2

\* the queries of the calls: a destructive and suspicious statement, a clean
\* one, and a blank one
CallQueries == {"DROP TABLE users;", "SELECT 1", " "}

IdleFrame == [pc |-> "idle", query |-> "", allow_destructive |-> FALSE, result |-> 0]

\* no call of validate_query is under way and none has returned
NoCalls ==
    /\ pattern_tables = ClassTables
    /\ heap = <<>>
    /\ frames = [t \in Threads |-> IdleFrame]
    /\ returned = <<>>

\* SQLBuddy.__init__ leaves both caches of the schema unset
NoSchema ==
    /\ cached_schema = None
    /\ cached_schema_formatted = None

\* no service was called
NoServices ==
    /\ NoSchema
    /\ llm_errors = {}
    /\ connector = None
    /\ twin = None
    /\ connections = <<>>
    /\ exposed = None
    /\ catalog = None
    /\ schema_cache = None
    /\ call = None
    /\ trail = <<>>

InitCalls ==
    /\ pc = "start"
    /\ query = ""
    /\ allow_destructive = FALSE
    /\ validate = FALSE
    /\ response = ""
    /\ result = None
    /\ connector_calls = <<>>
    /\ llm_responses = <<>>
    /\ NoCalls
    /\ NoServices

CallsMade == Len(returned) + Cardinality({t \in Threads : frames[t].pc # "idle"})

\* a thread calls validate_query: the result dictionary is created
CallStart(t) ==
    /\ frames[t].pc = "idle"
    /\ CallsMade < MaxCalls
    /\ \E q \in CallQueries, allow \in BOOLEAN :
           LET ref == NewRef(heap)
           IN  /\ heap' = Store(heap, ref, NewReport)
               /\ frames' = [frames EXCEPT ![t] =
                       [pc |-> "empty_check", query |-> q,
                        allow_destructive |-> allow, result |-> ref]]
    /\ UNCHANGED <<pattern_tables, returned>>

\* if not query or not query.strip(): ... return result
CheckEmpty(t) ==
    /\ frames[t].pc = "empty_check"
    /\ IF IsEmptyQuery(frames[t].query)
       THEN /\ heap' = [heap EXCEPT ![frames[t].result] =
                           [@ EXCEPT !.is_valid = FALSE,
                                     !.errors = Append(@, "Query is empty")]]
            /\ frames' = [frames EXCEPT ![t].pc = "return"]
       ELSE /\ heap' = heap
            /\ frames' = [frames EXCEPT ![t].pc = "dangerous"]
    /\ UNCHANGED <<pattern_tables, returned>>

\* the loop over DANGEROUS_PATTERNS
ScanDangerous(t) ==
    /\ frames[t].pc = "dangerous"
    /\ heap' = [heap EXCEPT ![frames[t].result] =
                    DangerousLoop(pattern_tables.DANGEROUS_PATTERNS, 1, @,
                                  upper(frames[t].query),
                                  frames[t].allow_destructive)]
    /\ frames' = [frames EXCEPT ![t].pc = "injection"]
    /\ UNCHANGED <<pattern_tables, returned>>

\* the loop over INJECTION_PATTERNS
ScanInjection(t) ==
    /\ frames[t].pc = "injection"
    /\ heap' = [heap EXCEPT ![frames[t].result] =
                    InjectionLoop(pattern_tables.INJECTION_PATTERNS, 1, @,
                                  frames[t].query)]
    /\ frames' = [frames EXCEPT ![t].pc = "command"]
    /\ UNCHANGED <<pattern_tables, returned>>

\* the command-presence check
CheckCommand(t) ==
    /\ frames[t].pc = "command"
    /\ heap' = [heap EXCEPT ![frames[t].result] =
                    CommandCheck(@, upper(frames[t].query))]
    /\ frames' = [frames EXCEPT ![t].pc = "balance"]
    /\ UNCHANGED <<pattern_tables, returned>>

\* the parentheses check and the quotes check
CheckBalance(t) ==
    /\ frames[t].pc = "balance"
    /\ heap' = [heap EXCEPT ![frames[t].result] =
                    QuoteCheck(ParenCheck(@, frames[t].query), frames[t].query)]
    /\ frames' = [frames EXCEPT ![t].pc = "return"]
    /\ UNCHANGED <<pattern_tables, returned>>

\* return result: the caller gets the reference
CallReturn(t) ==
    /\ frames[t].pc = "return"
    /\ returned' = Append(returned,
           [query |-> frames[t].query,
            allow_destructive |-> frames[t].allow_destructive,
            result |-> frames[t].result,
            value |-> heap[frames[t].result],
            changed |-> FALSE])
    /\ frames' = [frames EXCEPT ![t] = IdleFrame]
    /\ UNCHANGED <<pattern_tables, heap>>

\* a caller changes the report it was given
CallerChangesReport ==
    /\ \E i \in 1..Len(returned) :
           /\ ~returned[i].changed
           /\ heap' = [heap EXCEPT ![returned[i].result] =
                           [@ EXCEPT !.is_valid = ~@,
                                     !.errors = Append(@, "changed by the caller")]]
           /\ returned' = [returned EXCEPT ![i].changed = TRUE]
    /\ UNCHANGED <<pattern_tables, frames>>

NextCalls ==
    /\ \/ \E t \in Threads : CallStart(t)
       \/ \E t \in Threads : CheckEmpty(t)
       \/ \E t \in Threads : ScanDangerous(t)
       \/ \E t \in Threads : ScanInjection(t)
       \/ \E t \in Threads : CheckCommand(t)
       \/ \E t \in Threads : CheckBalance(t)
       \/ \E t \in Threads : CallReturn(t)
       \/ CallerChangesReport
    /\ UNCHANGED <<pc, query, allow_destructive, validate, response, result,
                   connector_calls, llm_responses, service_vars, schema_vars>>

SpecCalls == InitCalls /\ [][NextCalls]_vars

---------------------------------------------------------------------------
(* A call of QueryValidator.validate_query                                 *)

Init ==
    /\ pc = "start"
    /\ query \in Queries
    /\ allow_destructive \in BOOLEAN
    /\ validate = FALSE
    /\ response = ""
    /\ result = None
    /\ connector_calls = <<>>
    /\ llm_responses = <<>>
    /\ NoCalls
    /\ NoServices

ValidateQuery ==
    /\ pc = "start"
    /\ result' = validate_query(query, allow_destructive)
    /\ pc' = "done"
    /\ UNCHANGED <<query, allow_destructive, validate, response, connector_calls,
                   llm_responses, call_vars, service_vars, schema_vars>>

Next == ValidateQuery

Spec == Init /\ [][Next]_vars

---------------------------------------------------------------------------
(* A call of SQLBuddy.execute_query                                        *)

InitExecute ==
    /\ pc = "start"
    /\ query \in Queries
    /\ allow_destructive \in BOOLEAN
    /\ validate \in BOOLEAN
    /\ response = ""
    /\ result = None
    /\ connector_calls = <<>>
    /\ llm_responses = <<>>
    /\ NoCalls
    /\ NoServices

ExecuteQuery ==
    /\ pc = "start"
    /\ \E gate \in {ExecValidation(query, validate, allow_destructive)} :
           IF gate.returned
           THEN /\ result' = gate.result
                /\ connector_calls' = connector_calls
                /\ trail' = <<>>
           ELSE \E outcome \in ConnectorOutcomes :
                    /\ result' = ExecTry(gate.result, query, outcome)
                    /\ connector_calls' = Append(connector_calls, ConnectorCall(query))
                    /\ trail' = <<IF outcome.raises THEN "execute_query!"
                                  ELSE "execute_query">>
    /\ pc' = "done"
    /\ UNCHANGED <<query, allow_destructive, validate, response, llm_responses,
                   call_vars, schema_vars,
                   llm_errors, connector, twin, connections, exposed,
                   catalog, schema_cache, call>>

NextExecute == ExecuteQuery

SpecExecute == InitExecute /\ [][NextExecute]_vars

---------------------------------------------------------------------------
(* A call of QueryGenerator._parse_response                                *)

InitParse ==
    /\ pc = "start"
    /\ query = ""
    /\ allow_destructive = FALSE
    /\ validate = FALSE
    /\ response \in Responses
    /\ result = None
    /\ connector_calls = <<>>
    /\ llm_responses = <<>>
    /\ NoCalls
    /\ NoServices

ParseResponse ==
    /\ pc = "start"
    /\ result' = parse_response(response)
    /\ pc' = "done"
    /\ UNCHANGED <<query, allow_destructive, validate, response, connector_calls,
                   llm_responses, call_vars, service_vars, schema_vars>>

NextParse == ParseResponse

SpecParse == InitParse /\ [][NextParse]_vars

---------------------------------------------------------------------------
(* Calls of SQLBuddy.generate_query and SQLBuddy.generate_multiple_queries *)

\* num_variations, at most
MaxVariations == 2

\* the texts the language model returns to generate_multiple_queries: a
\* fenced block in a text with whitespace around it, a statement found by the
\* fallback, an empty block, and no SQL
VariationResponses ==
    {"\n SQL QUERY:\n" \o Fence \o "sql\nSELECT 1;\n" \o Fence
        \o "\nEXPLANATION:\nOne row.\n ",
     "intro\nDELETE FROM t;\nmore\n",
     Fence \o "sql\n" \o Fence \o "\nSELECT 3;",
     "no sql here"}

InitGenerate ==
    /\ pc = "start"
    /\ query = ""
    /\ allow_destructive = FALSE
    /\ validate \in BOOLEAN
    /\ response = ""
    /\ result = None
    /\ connector_calls = <<>>
    /\ llm_responses = <<>>
    /\ NoCalls
    /\ NoServices

GenerateQuery ==
    /\ pc = "start"
    /\ \E reply \in ClientReplies(Responses) :
           \E parsed \in {TryBlock(reply)} :
               \E generated \in {generate_query(parsed)} :
                   /\ llm_responses' = <<reply.text>>
                   /\ llm_errors' = {i \in {1} : reply.raises}
                   /\ result' = AddValidation(generated, validate)
    /\ pc' = "done"
    /\ UNCHANGED <<query, allow_destructive, validate, response, connector_calls,
                   call_vars, schema_vars, connector, twin, connections, exposed,
                   catalog, schema_cache, call, trail>>

GenerateMultipleQueries ==
    /\ pc = "start"
    /\ \E num_variations \in 1..MaxVariations :
           \E replies \in [1..num_variations -> ClientReplies(VariationResponses)] :
               \E parsed \in {[i \in 1..num_variations |-> TryBlock(replies[i])]} :
                   \E outcomes \in {[i \in 1..num_variations |-> generate_query(parsed[i])]} :
                       \E variations \in {generate_multiple_queries(outcomes, 1)} :
                           /\ llm_responses' = [i \in 1..num_variations |-> replies[i].text]
                           /\ llm_errors' = {i \in 1..num_variations : replies[i].raises}
                           /\ result' = ValidateVariations(variations, validate)
    /\ pc' = "done"
    /\ UNCHANGED <<query, allow_destructive, validate, response, connector_calls,
                   call_vars, schema_vars, connector, twin, connections, exposed,
                   catalog, schema_cache, call, trail>>

NextGenerate == GenerateQuery \/ GenerateMultipleQueries

SpecGenerate == InitGenerate /\ [][NextGenerate]_vars

---------------------------------------------------------------------------
(* Two connectors and what they expose                                     *)

\* arguments of DatabaseConnector(...)
DbTypes == {"mysql", "PostgreSQL", "mongodb"}
Hosts == {"localhost", "db.example.org"}
Ports == {None, Some(0), Some(5433)}
Users == {"test_user", "root"}
Passwords == {"", "secret", "root"}
Databases == {"test_db"}

\* the connections a connector that was used can hold: none, one that
\* answers, one that the server dropped
HeldConnections ==
    {<<>>, <<NewConnection>>, <<[NewConnection EXCEPT !.alive = FALSE]>>}

NothingExposed == [info |-> None, repr |-> None]

InitInfo ==
    /\ pc = "start"
    /\ query = ""
    /\ allow_destructive = FALSE
    /\ validate = FALSE
    /\ response = ""
    /\ result = None
    /\ connector_calls = <<>>
    /\ llm_responses = <<>>
    /\ NoCalls
    /\ NoSchema
    /\ llm_errors = {}
    /\ connections \in HeldConnections
    /\ \E db_type \in DbTypes, host \in Hosts, port \in Ports, user \in Users,
          database \in Databases :
           /\ IsSupported(db_type)
           /\ \E password \in Passwords :
                  connector =
                      [DatabaseConnector(db_type, host, port, user, password, database)
                           EXCEPT !._connection =
                               IF connections = <<>> THEN None ELSE Some(1)]
           /\ \E other_user \in Users, password \in Passwords :
                  twin = DatabaseConnector(db_type, host, port, other_user,
                                           password, database)
    /\ exposed = [c \in {"connector", "twin"} |-> NothingExposed]
    /\ catalog = None
    /\ schema_cache = None
    /\ call = None
    /\ trail = <<>>

\* the object a name stands for
Object(c) == IF c = "connector" THEN connector ELSE twin

GetConnectionInfo(c) ==
    /\ exposed[c].info = None
    /\ exposed' = [exposed EXCEPT
                       ![c].info = Some(get_connection_info(Object(c), connections))]
    /\ UNCHANGED <<pc, query, allow_destructive, validate, response, result,
                   connector_calls, llm_responses, call_vars, schema_vars, llm_errors,
                   connector, twin, connections, catalog, schema_cache, call,
                   trail>>

Repr(c) ==
    /\ exposed[c].repr = None
    /\ exposed' = [exposed EXCEPT ![c].repr = Some(repr(Object(c)))]
    /\ UNCHANGED <<pc, query, allow_destructive, validate, response, result,
                   connector_calls, llm_responses, call_vars, schema_vars, llm_errors,
                   connector, twin, connections, catalog, schema_cache, call,
                   trail>>

NextInfo ==
    \/ \E c \in {"connector", "twin"} : GetConnectionInfo(c)
    \/ \E c \in {"connector", "twin"} : Repr(c)

SpecInfo == InitInfo /\ [][NextInfo]_vars

---------------------------------------------------------------------------
(* Calls on a SchemaExtractor                                              *)

IdColumn ==
    [name |-> "id", data_type |-> "int", column_type |-> "int(11)",
     nullable |-> FALSE, default |-> None, key |-> "PRI",
     extra |-> "auto_increment", max_length |-> None,
     numeric_precision |-> Some(10), numeric_scale |-> Some(0)]

UsersTable ==
    [name |-> "users",
     columns |-> <<IdColumn,
                   [name |-> "email", data_type |-> "varchar",
                    column_type |-> "varchar(255)", nullable |-> TRUE,
                    default |-> Some("none"), key |-> "", extra |-> "",
                    max_length |-> Some(255), numeric_precision |-> None,
                    numeric_scale |-> None]>>,
     primary_keys |-> <<"id">>,
     foreign_keys |-> <<>>,
     indexes |-> <<[name |-> "PRIMARY", column |-> "id", unique |-> TRUE],
                   [name |-> "idx_email", column |-> "email", unique |-> FALSE]>>,
     constraints |-> <<[name |-> "PRIMARY", type |-> "PRIMARY KEY"]>>]

PostsTable ==
    [name |-> "posts",
     columns |-> <<IdColumn,
                   [name |-> "user_id", data_type |-> "int",
                    column_type |-> "int(11)", nullable |-> FALSE,
                    default |-> None, key |-> "MUL", extra |-> "",
                    max_length |-> None, numeric_precision |-> Some(10),
                    numeric_scale |-> Some(0)]>>,
     primary_keys |-> <<"id">>,
     foreign_keys |-> <<[constraint_name |-> "fk_posts_user", column |-> "user_id",
                         referenced_table |-> "users", referenced_column |-> "id"]>>,
     indexes |-> <<>>,
     constraints |-> <<[name |-> "fk_posts_user", type |-> "FOREIGN KEY"]>>]

\* the databases: without tables, with one table, with two related tables
Catalogs == {<<>>, <<UsersTable>>, <<PostsTable, UsersTable>>}

\* table_name arguments
TableNameArgs == {"users", "posts", "orders"}

\* the connectors a SchemaExtractor is created with
ExtractorConnectors ==
    {DatabaseConnector(db_type, "localhost", None, "test_user", "secret", "test_db") :
        db_type \in {"mysql", "postgresql"}}

\* the number of queries of an extraction: fail_at ranges over 0..NumQueries
NumQueries(cat) == Len(ExtractionQueries([i \in 1..Len(cat) |-> cat[i].name]))

\* a call and its arguments; turn tells a call from the one before it
Call(name, use_cache, table_name) ==
    [name |-> name, use_cache |-> use_cache, table_name |-> table_name,
     turn |-> 1 - call.turn]

\* what the caller sees of a call
Outcome(done) ==
    IF done.raised THEN [raised |-> TRUE, error |-> done.error]
    ELSE [raised |-> FALSE, value |-> done.value]

InitExtractor ==
    /\ pc = "start"
    /\ query = ""
    /\ allow_destructive = FALSE
    /\ validate = FALSE
    /\ response = ""
    /\ result = None
    /\ connector_calls = <<>>
    /\ llm_responses = <<>>
    /\ NoCalls
    /\ NoSchema
    /\ llm_errors = {}
    /\ connector \in ExtractorConnectors
    /\ twin = None
    /\ connections = <<>>
    /\ exposed = None
    /\ catalog \in Catalogs
    /\ schema_cache = None
    /\ call = [name |-> "__init__", use_cache |-> FALSE, table_name |-> "", turn |-> 0]
    /\ trail = <<>>

\* what a call on the extractor leaves alone
ExtractorFrame ==
    UNCHANGED <<pc, query, allow_destructive, validate, response, llm_responses,
                call_vars, schema_vars, llm_errors, connector, twin, connections, exposed,
                catalog, trail>>

ExtractFullSchema ==
    /\ \E use_cache \in BOOLEAN, fail_at \in 0..NumQueries(catalog) :
           \E done \in {extract_full_schema(connector, schema_cache, use_cache,
                                             catalog, fail_at)} :
               /\ call' = Call("extract_full_schema", use_cache, "")
               /\ result' = Outcome(done)
               /\ schema_cache' = done.cache
               /\ connector_calls' = done.calls
    /\ ExtractorFrame

GetTableInfo ==
    /\ \E table_name \in TableNameArgs, fail_at \in 0..NumQueries(catalog) :
           \E done \in {get_table_info(connector, schema_cache, table_name,
                                        catalog, fail_at)} :
               /\ call' = Call("get_table_info", TRUE, table_name)
               /\ result' = Outcome(done)
               /\ schema_cache' = done.cache
               /\ connector_calls' = done.calls
    /\ ExtractorFrame

GetSchemaSummary ==
    /\ \E fail_at \in 0..NumQueries(catalog) :
           \E done \in {get_schema_summary(connector, schema_cache, catalog, fail_at)} :
               /\ call' = Call("get_schema_summary", TRUE, "")
               /\ result' = Outcome(done)
               /\ schema_cache' = done.cache
               /\ connector_calls' = done.calls
    /\ ExtractorFrame

FormatSchemaForLlm ==
    /\ \E fail_at \in 0..NumQueries(catalog) :
           \E done \in {format_schema_for_llm(connector, schema_cache, catalog,
                                               fail_at)} :
               /\ call' = Call("format_schema_for_llm", TRUE, "")
               /\ result' = Outcome(done)
               /\ schema_cache' = done.cache
               /\ connector_calls' = done.calls
    /\ ExtractorFrame

ClearCache ==
    /\ call' = Call("clear_cache", FALSE, "")
    /\ result' = [raised |-> FALSE, value |-> None]
    /\ schema_cache' = None
    /\ connector_calls' = <<>>
    /\ ExtractorFrame

\* somebody changes the tables of the database
CatalogChanges ==
    /\ catalog' \in Catalogs \ {catalog}
    /\ UNCHANGED <<pc, query, allow_destructive, validate, response, result,
                   connector_calls, llm_responses, call_vars, schema_vars, llm_errors,
                   connector, twin, connections, exposed, schema_cache, call,
                   trail>>

NextExtractor ==
    \/ ExtractFullSchema
    \/ GetTableInfo
    \/ GetSchemaSummary
    \/ FormatSchemaForLlm
    \/ ClearCache
    \/ CatalogChanges

SpecExtractor == InitExtractor /\ [][NextExtractor]_vars

---------------------------------------------------------------------------
(* A call of QueryValidator.sanitize_query                                 *)

\* pieces of a query, at most
MaxFragments == 3

FragmentLexicon == <<"--", "-", "/*", "*/", "/", ";", " ", "\n", "a">>

RECURSIVE FragmentPhrases(_)
FragmentPhrases(n) ==
    IF n = 0 THEN {""}
    ELSE FragmentPhrases(n - 1)
         \cup {p \o FragmentLexicon[k] :
                  p \in FragmentPhrases(n - 1), k \in 1..Len(FragmentLexicon)}

NamedSanitizeInputs ==
    {"SELECT * FROM users; -- all of them\n",
     "SELECT /* every\ncolumn */ * FROM users ;",
     "  SELECT 1;;  ",
     "SELECT 1 -/**/- DROP TABLE users",
     "SELECT 1 //*x*/*y*/",
     "SELECT 1 /* open"}

SanitizeInputs == FragmentPhrases(MaxFragments) \cup NamedSanitizeInputs

InitSanitize ==
    /\ pc = "start"
    /\ query \in SanitizeInputs
    /\ allow_destructive = FALSE
    /\ validate = FALSE
    /\ response = ""
    /\ result = None
    /\ connector_calls = <<>>
    /\ llm_responses = <<>>
    /\ NoCalls
    /\ NoServices

SanitizeQuery ==
    /\ pc = "start"
    /\ result' = sanitize_query(query)
    /\ pc' = "done"
    /\ UNCHANGED <<query, allow_destructive, validate, response, connector_calls,
                   llm_responses, call_vars, service_vars, schema_vars>>

NextSanitize == SanitizeQuery

SpecSanitize == InitSanitize /\ [][NextSanitize]_vars

---------------------------------------------------------------------------
(* Calls on a DatabaseConnector                                            *)

\* connections opened, at most
MaxConnections == 3

InitConnector ==
    /\ pc = "start"
    /\ query = ""
    /\ allow_destructive = FALSE
    /\ validate = FALSE
    /\ response = ""
    /\ result = None
    /\ connector_calls = <<>>
    /\ llm_responses = <<>>
    /\ NoCalls
    /\ NoSchema
    /\ llm_errors = {}
    /\ connector \in ExtractorConnectors
    /\ twin = None
    /\ connections = <<>>
    /\ exposed = None
    /\ catalog = None
    /\ schema_cache = None
    /\ call = [name |-> "__init__", use_cache |-> FALSE, table_name |-> "", turn |-> 0]
    /\ trail = <<>>

\* what a call on the connector leaves alone
ConnectorFrame ==
    UNCHANGED <<pc, query, allow_destructive, validate, response, connector_calls,
                llm_responses, call_vars, schema_vars, llm_errors, twin, exposed, catalog,
                schema_cache>>

\* the call is made and leaves the object, the connections and the result
Does(name, done) ==
    /\ call' = Call(name, FALSE, "")
    /\ connector' = done.self
    /\ connections' = done.conns
    /\ trail' = done.trail
    /\ result' = Outcome(done)
    /\ ConnectorFrame

Connect ==
    /\ Len(connections) < MaxConnections
    /\ \E driver \in DriverOutcomes :
           \E done \in {connect(connector, connections, driver)} :
               Does("connect", done)

Disconnect ==
    \E done \in {disconnect(connector, connections)} : Does("disconnect", done)

EnsureConnection ==
    /\ Len(connections) < MaxConnections
    /\ \E driver \in DriverOutcomes :
           \E done \in {ensure_connection(connector, connections, driver)} :
               Does("ensure_connection", done)

ConnectorExecuteQuery ==
    /\ Len(connections) < MaxConnections
    /\ \E driver \in DriverOutcomes, fetch \in BOOLEAN :
           \E done \in {execute_query(connector, connections, driver, fetch)} :
               Does("execute_query", done)

TestConnection ==
    /\ Len(connections) < MaxConnections
    /\ \E driver \in DriverOutcomes :
           \E done \in {test_connection(connector, connections, driver)} :
               Does("test_connection", done)

\* __enter__: connect, and self is returned
Enter ==
    /\ Len(connections) < MaxConnections
    /\ \E driver \in DriverOutcomes :
           \E done \in {connect(connector, connections, driver)} :
               Does("__enter__", done)

\* __exit__: disconnect
Exit ==
    \E done \in {disconnect(connector, connections)} : Does("__exit__", done)

\* the server drops a connection
ConnectionLost ==
    /\ \E i \in 1..Len(connections) :
           /\ connections[i].alive
           /\ ~connections[i].closed
           /\ connections' = [connections EXCEPT ![i].alive = FALSE]
    /\ UNCHANGED <<connector, call, trail, result>>
    /\ ConnectorFrame

NextConnector ==
    \/ Connect
    \/ Disconnect
    \/ EnsureConnection
    \/ ConnectorExecuteQuery
    \/ TestConnection
    \/ Enter
    \/ Exit
    \/ ConnectionLost

SpecConnector == InitConnector /\ [][NextConnector]_vars

---------------------------------------------------------------------------
(* A call of SQLBuddy.generate_and_execute                                 *)

\* the texts the language model returns to generate_and_execute
GeneratedResponses ==
    VariationResponses \cup NamedResponses \cup NamedAnswers
        \cup {Fence \o "sql\nDROP TABLE users;\n" \o Fence,
              Fence \o "sql\nTRUNCATE TABLE users\n" \o Fence,
              Fence \o "sql\nSELECT (1\n" \o Fence,
              Fence \o "sql\nSELECT 1; DROP TABLE users\n" \o Fence,
              Fence \o "sql\nUPDATE users SET a = 1\n" \o Fence}

InitGenerateAndExecute ==
    /\ pc = "start"
    /\ query = ""
    /\ allow_destructive \in BOOLEAN
    /\ validate \in BOOLEAN
    /\ response = ""
    /\ result = None
    /\ connector_calls = <<>>
    /\ llm_responses = <<>>
    /\ NoCalls
    /\ NoServices

\* generate_and_execute: generate_query (an error of the generator is
\* raised again), then execute_query on the query of the generation result
GenerateAndExecute ==
    /\ pc = "start"
    /\ \E reply \in ClientReplies(GeneratedResponses) :
         \E parsed \in {TryBlock(reply)} :
           \E generated \in {generate_query(parsed)} :
             \E generation \in {AddValidation(generated, validate)} :
               /\ llm_responses' = <<reply.text>>
               /\ llm_errors' = {i \in {1} : reply.raises}
               /\ IF generation.raised
                  THEN /\ result' = generation
                       /\ connector_calls' = <<>>
                       /\ trail' = <<>>
                  ELSE IF generation.value.query = ""
                  THEN /\ result' = [raised |-> FALSE,
                                     generation |-> generation.value,
                                     execution |-> [error |-> "No query generated"]]
                       /\ connector_calls' = <<>>
                       /\ trail' = <<>>
                  ELSE \E gate \in {ExecValidation(generation.value.query, validate,
                                                    allow_destructive)} :
                         IF gate.returned
                         THEN /\ result' = [raised |-> FALSE,
                                            generation |-> generation.value,
                                            execution |-> gate.result]
                              /\ connector_calls' = <<>>
                              /\ trail' = <<>>
                         ELSE \E outcome \in ConnectorOutcomes :
                                /\ result' =
                                       [raised |-> FALSE,
                                        generation |-> generation.value,
                                        execution |-> ExecTry(gate.result,
                                                              generation.value.query,
                                                              outcome)]
                                /\ connector_calls' =
                                       <<ConnectorCall(generation.value.query)>>
                                /\ trail' = <<IF outcome.raises THEN "execute_query!"
                                              ELSE "execute_query">>
    /\ pc' = "done"
    /\ UNCHANGED <<query, allow_destructive, validate, response, call_vars,
                   schema_vars,
                   connector, twin, connections, exposed, catalog, schema_cache,
                   call>>

NextGenerateAndExecute == GenerateAndExecute

SpecGenerateAndExecute == InitGenerateAndExecute /\ [][NextGenerateAndExecute]_vars

---------------------------------------------------------------------------
(* Calls on a SQLBuddy that read or load the schema                        *)
(*                                                                         *)
(* The SQLBuddy was created with auto_connect=False. The queries of the    *)
(* schema extractor go through DatabaseConnector.execute_query: the first  *)
(* one of a call opens a connection when none is held, and the query       *)
(* numbered fail_at raises.                                                *)

\* the answers of the language model to the prompt
PromptResponses == {Fence \o "sql\nSELECT * FROM users;\n" \o Fence}

\* table_name arguments: a table of some catalog, and one of none
SchemaTableArgs == {"users", "orders"}


\* the tables of the database: one, or none
SchemaCatalogs == {<<>>, <<UsersTable>>}

\* the driver while the extractor queries, if it does: connecting succeeds
\* or fails
QueryDrivers(missing) ==
    {driver \in DriverOutcomes :
        /\ driver.execute_ok /\ driver.commit_ok /\ driver.rollback_ok
        /\ ~missing => driver.connect_ok}

\* the query that raises: none is sent when nothing is missing, the first
\* one raises when no connection can be opened, and otherwise none raises,
\* or the first one, or the last one
FailPlans(missing, conn, conns, driver, cat) ==
    IF ~missing THEN {0}
    ELSE IF ~is_connected(conn, conns) /\ ~driver.connect_ok THEN {1}
    ELSE {0, 1, NumQueries(cat)}

\* the connector after the queries of a call
AfterQueries(conn, conns, driver, calls) ==
    IF calls = <<>>
    THEN [self |-> conn, conns |-> conns, trail |-> <<>>]
    ELSE ensure_connection(conn, conns, driver)

InitSchema ==
    /\ pc = "start"
    /\ query = ""
    /\ allow_destructive = FALSE
    /\ validate = FALSE
    /\ response = ""
    /\ result = None
    /\ connector_calls = <<>>
    /\ llm_responses = <<>>
    /\ NoCalls
    /\ NoSchema
    /\ llm_errors = {}
    /\ connector \in ExtractorConnectors
    /\ twin = None
    /\ connections = <<>>
    /\ exposed = None
    /\ catalog \in SchemaCatalogs
    /\ schema_cache = None
    /\ call = [name |-> "__init__", use_cache |-> FALSE, table_name |-> "", turn |-> 0]
    /\ trail = <<>>

\* the attributes of the SQLBuddy
Buddy == [cached_schema |-> cached_schema,
          cached_schema_formatted |-> cached_schema_formatted]

\* what a call on the SQLBuddy leaves alone
SchemaFrame ==
    UNCHANGED <<pc, query, allow_destructive, validate, response, call_vars, twin,
                exposed>>

\* the call is made: its result, the attributes, the cache of the extractor,
\* the queries it sent, the connector after them and the replies of the
\* language model in the call
BuddyDoes(called, done, conn, conns, driver, before, replies) ==
    \E reached \in {AfterQueries(conn, conns, driver, done.calls)} :
        /\ Len(reached.conns) <= MaxConnections
        /\ call' = called
        /\ result' = Outcome(done)
        /\ cached_schema' = done.self.cached_schema
        /\ cached_schema_formatted' = done.self.cached_schema_formatted
        /\ schema_cache' = done.cache
        /\ connector_calls' = done.calls
        /\ connector' = reached.self
        /\ connections' = reached.conns
        /\ trail' = before \o reached.trail
        /\ llm_responses' = [i \in {j \in 1..Len(replies) : ~replies[j].raises}
                                |-> replies[i].text]
        /\ llm_errors' = {i \in 1..Len(replies) : replies[i].raises}
        /\ UNCHANGED catalog
        /\ SchemaFrame

\* SQLBuddy.connect: test_connection, then load_schema() on success
SQLBuddyConnect ==
    /\ Len(connections) < MaxConnections
    /\ \E driver \in DriverOutcomes :
         \E tested \in {test_connection(connector, connections, driver)} :
           \E fail_at \in FailPlans(tested.value.success /\ cached_schema = None,
                                    tested.self, tested.conns, driver, catalog) :
             \E loaded \in {LoadIf(tested.value.success, Buddy, tested.self,
                                   schema_cache, catalog, fail_at)} :
               \E done \in {IF loaded.raised THEN loaded
                            ELSE SQLBuddy_connect(loaded, tested.value)} :
                 BuddyDoes(Call("connect", TRUE, ""), done, tested.self,
                           tested.conns, driver, tested.trail, <<>>)

\* SQLBuddy.load_schema; the call may use the cache unless force_reload
LoadSchema ==
    /\ \E force_reload \in BOOLEAN :
        \E driver \in QueryDrivers(force_reload \/ cached_schema = None) :
         \E fail_at \in FailPlans(force_reload \/ cached_schema = None,
                                  connector, connections, driver, catalog) :
           \E done \in {load_schema(Buddy, connector, schema_cache, force_reload,
                                    catalog, fail_at)} :
             BuddyDoes(Call("load_schema", ~force_reload, ""), done, connector,
                       connections, driver, <<>>, <<>>)

\* SQLBuddy.get_schema_summary and SQLBuddy.get_table_info: the schema is
\* loaded when there is none, then the extractor is asked
SQLBuddyGetSchemaSummary ==
    /\ \E driver \in QueryDrivers(NotSchema(Buddy)) :
        \E fail_at \in FailPlans(NotSchema(Buddy), connector, connections,
                                 driver, catalog) :
         \E loaded \in {LoadIf(NotSchema(Buddy), Buddy, connector, schema_cache,
                               catalog, fail_at)} :
          \E later \in {Later(fail_at, loaded.calls)} :
           \E done \in {IF loaded.raised THEN loaded
                        ELSE AndThen(loaded,
                                     get_schema_summary(connector, loaded.cache,
                                                        catalog, later))} :
             BuddyDoes(Call("get_schema_summary", TRUE, ""), done, connector,
                       connections, driver, <<>>, <<>>)

SQLBuddyGetTableInfo ==
    /\ \E table_name \in SchemaTableArgs, driver \in QueryDrivers(NotSchema(Buddy)) :
        \E fail_at \in FailPlans(NotSchema(Buddy), connector, connections,
                                 driver, catalog) :
         \E loaded \in {LoadIf(NotSchema(Buddy), Buddy, connector, schema_cache,
                               catalog, fail_at)} :
          \E later \in {Later(fail_at, loaded.calls)} :
           \E done \in {IF loaded.raised THEN loaded
                        ELSE AndThen(loaded,
                                     get_table_info(connector, loaded.cache,
                                                    table_name, catalog, later))} :
             BuddyDoes(Call("get_table_info", TRUE, table_name), done, connector,
                       connections, driver, <<>>, <<>>)

\* SQLBuddy.generate_query(question), validate being True by default: the
\* schema is loaded when there is no text, and the language model is called
\* once the text is there
SQLBuddyGenerateQuery ==
    \E reply \in ClientReplies(PromptResponses) :
     \E parsed \in {TryBlock(reply)} :
      \E generated \in {generate_query(parsed)} :
       \E generation \in {AddValidation(generated, TRUE)} :
        \E driver \in QueryDrivers(NotFormatted(Buddy)) :
         \E fail_at \in FailPlans(NotFormatted(Buddy), connector, connections,
                                  driver, catalog) :
          \E loaded \in {LoadIf(NotFormatted(Buddy), Buddy, connector,
                                schema_cache, catalog, fail_at)} :
           \E done \in {IF loaded.raised THEN loaded @@ [prompt |-> None]
                        ELSE SQLBuddy_generate_query(loaded, generation)} :
            BuddyDoes(Call("generate_query", TRUE, ""), done, connector,
                      connections, driver, <<>>,
                      IF done.prompt = None THEN <<>> ELSE <<reply>>)

\* somebody changes the tables of the database
SchemaCatalogChanges ==
    /\ catalog' \in SchemaCatalogs \ {catalog}
    /\ UNCHANGED <<result, connector_calls, llm_responses, llm_errors, schema_vars,
                   connector, connections, schema_cache, call, trail>>
    /\ SchemaFrame

NextSchema ==
    \/ SQLBuddyConnect
    \/ LoadSchema
    \/ SQLBuddyGetSchemaSummary
    \/ SQLBuddyGetTableInfo
    \/ SQLBuddyGenerateQuery
    \/ SchemaCatalogChanges

SpecSchema == InitSchema /\ [][NextSchema]_vars

---------------------------------------------------------------------------
(* Properties of validate_query, stated on the text of the query           *)

Returned == pc = "done"

\* every character of q is whitespace (also when q is empty)
IsBlank(q) == \A i \in 1..Len(q) : Ch(q, i) \in SpaceChars

\* the number of entries of seq equal to x
Occurrences(seq, x) == Cardinality({i \in 1..Len(seq) : seq[i] = x})

InSeq(seq, x) == \E i \in 1..Len(seq) : seq[i] = x

DestructiveError(pattern) ==
    "Destructive operation detected: " \o pattern.src
    \o ". Set allow_destructive=True to bypass this check."

DestructiveWarning(pattern) == "Destructive operation detected: " \o pattern.src

SuspiciousWarning(pattern) ==
    "Potentially suspicious pattern detected: " \o pattern.src

\* the destructive patterns that match the uppercased query
DestructiveHits(q) ==
    {k \in 1..Len(DANGEROUS_PATTERNS) :
        re_search(DANGEROUS_PATTERNS[k].re, upper(q), IGNORECASE)}

HasCommandKeyword(q) ==
    \E kw \in {"SELECT", "INSERT", "UPDATE", "DELETE", "CREATE", "ALTER", "DROP"} :
        contains(upper(q), kw)

\* the report names the pattern among its errors or its warnings
FlaggedDestructive(rep, pattern) ==
    InSeq(rep.errors, DestructiveError(pattern))
    \/ InSeq(rep.warnings, DestructiveWarning(pattern))

\* C2: errors is non-empty if and only if is_valid is false, for every query
\* and either value of allow_destructive.
C2_ErrorsIffInvalid ==
    Returned => ((result.errors # <<>>) <=> ~result.is_valid)

\* a query rejected for two reasons at once: a destructive match and no command
C2_Witness ==
    /\ Returned
    /\ ~result.is_valid
    /\ Len(result.errors) = 2
    /\ InSeq(result.errors, "No valid SQL command found")

\* C3: is_valid is false exactly when the query is empty or whitespace-only,
\* or a destructive pattern matches and allow_destructive is false, or the
\* uppercased query contains no command keyword (which is reported as "No
\* valid SQL command found"); injection matches and unbalanced parentheses or
\* quotes never change it.
C3_InvalidExactlyWhen ==
    Returned =>
        /\ ~result.is_valid <=>
              \/ IsBlank(query)
              \/ (~allow_destructive /\ DestructiveHits(query) # {})
              \/ ~HasCommandKeyword(query)
        /\ InSeq(result.errors, "No valid SQL command found") <=>
              (~IsBlank(query) /\ ~HasCommandKeyword(query))

\* a valid report that carries an injection warning and a balance warning
C3_Witness ==
    /\ Returned
    /\ result.is_valid
    /\ result.is_suspicious
    /\ InSeq(result.warnings, "Unbalanced parentheses detected")

\* C4: for a non-empty query is_destructive is true iff a destructive pattern
\* matches, whatever allow_destructive is; with allow_destructive false every
\* matching pattern adds exactly one error (ending in the bypass hint) and
\* is_valid is false; with allow_destructive true every matching pattern adds
\* exactly one warning and no error.  "DROP TABLE users;" is invalid and
\* destructive with the flag false, and valid, destructive and warned about
\* with the flag true.
C4_DestructivePolicy ==
    (Returned /\ ~IsBlank(query)) =>
        LET hits == DestructiveHits(query)
        IN  /\ result.is_destructive <=> hits # {}
            /\ \A k \in 1..Len(DANGEROUS_PATTERNS) :
                 LET pattern == DANGEROUS_PATTERNS[k]
                     n == IF k \in hits THEN 1 ELSE 0
                 IN  IF allow_destructive
                     THEN /\ Occurrences(result.warnings, DestructiveWarning(pattern)) = n
                          /\ Occurrences(result.errors, DestructiveError(pattern)) = 0
                     ELSE /\ Occurrences(result.errors, DestructiveError(pattern)) = n
                          /\ Occurrences(result.warnings, DestructiveWarning(pattern)) = 0
            /\ (~allow_destructive /\ hits # {}) => ~result.is_valid
            /\ allow_destructive =>
                 \A i \in 1..Len(result.errors) :
                     result.errors[i] = "No valid SQL command found"
            /\ query = "DROP TABLE users;" =>
                 /\ result.is_destructive
                 /\ result.is_valid = allow_destructive
                 /\ allow_destructive => result.warnings # <<>>

\* a query matching two destructive patterns, rejected with one error for each
C4_Witness ==
    /\ Returned
    /\ ~allow_destructive
    /\ Cardinality(DestructiveHits(query)) = 2
    /\ Len(result.errors) = 2
    /\ result.is_destructive

\* C5: an empty or whitespace-only query returns at once is_valid = false,
\* errors = ["Query is empty"], no warnings, is_destructive = false and
\* is_suspicious = false, for either value of allow_destructive.
C5_EmptyQueryReport ==
    (Returned /\ IsBlank(query)) =>
        result = [is_valid |-> FALSE, errors |-> <<"Query is empty">>,
                  warnings |-> <<>>, is_destructive |-> FALSE,
                  is_suspicious |-> FALSE]

\* a query of whitespace only has been validated
C5_Witness ==
    /\ Returned
    /\ query # ""
    /\ IsBlank(query)
    /\ result.errors = <<"Query is empty">>

\* the position of the first character at or after p that is not in set
SkipWhile(s, p, set) ==
    SetMin({x \in p..(Len(s) + 1) : x = Len(s) + 1 \/ Ch(s, x) \notin set})

TextAt(s, p, w) == p + Len(w) - 1 <= Len(s) /\ SubSeq(s, p, p + Len(w) - 1) = w

\* the statement UPDATE <table> SET starts the text
IsUpdateStatement(q) ==
    LET u  == upper(q)
        p1 == SkipWhile(u, 7, SpaceChars)
        p2 == SkipWhile(u, p1, WordChars)
        p3 == SkipWhile(u, p2, SpaceChars)
    IN  /\ TextAt(u, 1, "UPDATE")
        /\ p1 > 7 /\ p2 > p1 /\ p3 > p2
        /\ TextAt(u, p3, "SET")
        /\ p3 + 3 <= Len(u) /\ Ch(u, p3 + 3) \in SpaceChars

\* C6: an UPDATE <table> SET ... statement is classified as destructive by the
\* UPDATE pattern when no WHERE follows the SET list, and is not when a WHERE
\* clause follows it.
C6_UpdateWithoutWhere ==
    (Returned /\ IsUpdateStatement(query)) =>
        (FlaggedDestructive(result, DangerousUpdate)
            <=> ~contains(upper(query), " WHERE "))

\* C7: "SELECT * FROM users WHERE id=1 OR '1'='1'" is reported suspicious,
\* with allow_destructive false and with allow_destructive true.
C7_OrInjectionSuspicious ==
    (Returned /\ query = "SELECT * FROM users WHERE id=1 OR '1'='1'") =>
        result.is_suspicious

SeparatorMarkers == {";", "--", "#", "/*", "*/"}

\* C8: the separator pattern flags a query when a marker ; -- # /* */ appears
\* inside the statement text; a query whose only marker is the statement
\* terminator ';' at its very end is not flagged by it.
C8_SeparatorMidString ==
    Returned =>
        LET body == SubSeq(query, 1, Len(query) - 1)
            inside == \E m \in SeparatorMarkers : contains(body, m)
            flagged == InSeq(result.warnings, SuspiciousWarning(InjectionSeparator))
        IN  /\ (~IsBlank(query) /\ inside) => flagged
            /\ (endswith(query, ";") /\ ~inside /\ HasCommandKeyword(query))
                 => ~flagged

\* the text has a DELETE FROM <table> whose table name is followed by optional
\* whitespace and then ';' or the end of the text
BareDeleteAt(u, i) ==
    LET p1 == SkipWhile(u, i + 6, SpaceChars)
        p2 == SkipWhile(u, p1 + 4, SpaceChars)
        p3 == SkipWhile(u, p2, WordChars)
        p4 == SkipWhile(u, p3, SpaceChars)
    IN  /\ TextAt(u, i, "DELETE")
        /\ ~IsWordAt(u, i - 1)
        /\ p1 > i + 6
        /\ TextAt(u, p1, "FROM")
        /\ p2 > p1 + 4
        /\ p3 > p2
        /\ (p4 = Len(u) + 1 \/ Ch(u, p4) = ";")

HasBareDelete(q) == \E i \in 1..Len(q) : BareDeleteAt(upper(q), i)

\* C9: DELETE FROM <table> is classified as destructive by the DELETE pattern
\* when the table name is followed only by optional whitespace and then ';'
\* or the end of the input, and is not when anything else, such as a WHERE
\* clause, follows the table name: "DELETE FROM users" and "DELETE FROM
\* users;" are destructive, "DELETE FROM users WHERE id = 1" is not.
C9_DeleteWithoutWhere ==
    Returned =>
        /\ ~IsBlank(query) =>
             (FlaggedDestructive(result, DangerousDelete) <=> HasBareDelete(query))
        /\ query \in {"DELETE FROM users", "DELETE FROM users;"} =>
             result.is_destructive
        /\ query = "DELETE FROM users WHERE id = 1" => ~result.is_destructive

\* a DELETE with a WHERE clause has been validated and is not destructive
C9_Witness ==
    /\ Returned
    /\ query = "DELETE FROM users WHERE id=1"
    /\ ~result.is_destructive

\* the injection patterns that match the query
InjectionHits(q) ==
    {k \in 1..Len(INJECTION_PATTERNS) :
        re_search(INJECTION_PATTERNS[k].re, q, IGNORECASE)}

\* one message for each number of hits, in increasing order
RECURSIVE MessagesInOrder(_, _, _)
MessagesInOrder(messages, hits, k) ==
    IF k > Len(messages) THEN <<>>
    ELSE (IF k \in hits THEN <<messages[k]>> ELSE <<>>)
         \o MessagesInOrder(messages, hits, k + 1)

DestructiveErrors ==
    [k \in 1..Len(DANGEROUS_PATTERNS) |-> DestructiveError(DANGEROUS_PATTERNS[k])]

DestructiveWarnings ==
    [k \in 1..Len(DANGEROUS_PATTERNS) |-> DestructiveWarning(DANGEROUS_PATTERNS[k])]

SuspiciousWarnings ==
    [k \in 1..Len(INJECTION_PATTERNS) |-> SuspiciousWarning(INJECTION_PATTERNS[k])]

NumberOf(q, c) == Cardinality({i \in 1..Len(q) : Ch(q, i) = c})

ParenthesesUnbalanced(q) == NumberOf(q, "(") # NumberOf(q, ")")

QuotesUnbalanced(q) == NumberOf(q, "'") % 2 = 1 \/ NumberOf(q, "\"") % 2 = 1

\* C17: for every non-empty query the four checks run in the order
\* destructive scan, injection scan, command check, balance checks, and none
\* is skipped because an earlier one failed: is_suspicious and the injection
\* and balance warnings depend on the query only, not on allow_destructive;
\* warnings holds the destructive warnings, then the injection warnings, then
\* the parentheses warning, then the quotes warning; errors holds the
\* destructive errors and then "No valid SQL command found".
C17_ChecksInOrder ==
    (Returned /\ ~IsBlank(query)) =>
        LET hits == DestructiveHits(query)
            injections == InjectionHits(query)
        IN  /\ result.is_suspicious <=> injections # {}
            /\ result.warnings =
                  (IF allow_destructive
                   THEN MessagesInOrder(DestructiveWarnings, hits, 1) ELSE <<>>)
                  \o MessagesInOrder(SuspiciousWarnings, injections, 1)
                  \o (IF ParenthesesUnbalanced(query)
                      THEN <<"Unbalanced parentheses detected">> ELSE <<>>)
                  \o (IF QuotesUnbalanced(query)
                      THEN <<"Unbalanced quotes detected">> ELSE <<>>)
            /\ result.errors =
                  (IF allow_destructive
                   THEN <<>> ELSE MessagesInOrder(DestructiveErrors, hits, 1))
                  \o (IF HasCommandKeyword(query)
                      THEN <<>> ELSE <<"No valid SQL command found">>)

\* a query that fails the destructive scan and the command check and still
\* gets its injection warning and both balance warnings
C17_Witness ==
    /\ Returned
    /\ ~allow_destructive
    /\ result.is_destructive
    /\ result.is_suspicious
    /\ Len(result.errors) = 2
    /\ result.errors[2] = "No valid SQL command found"
    /\ Len(result.warnings) = 3
    /\ result.warnings[2] = "Unbalanced parentheses detected"
    /\ result.warnings[3] = "Unbalanced quotes detected"

\* C18: the balance checks only add warnings: "Unbalanced parentheses
\* detected" is appended iff the number of '(' differs from the number of
\* ')', and exactly one "Unbalanced quotes detected" is appended iff the
\* number of single quotes or the number of double quotes is odd, one warning
\* also when both are odd; "SELECT * FROM users WHERE name = 'O" gets the
\* quotes warning and stays valid.
C18_BalanceWarnings ==
    Returned =>
        /\ Occurrences(result.warnings, "Unbalanced parentheses detected")
              = IF ParenthesesUnbalanced(query) THEN 1 ELSE 0
        /\ Occurrences(result.warnings, "Unbalanced quotes detected")
              = IF QuotesUnbalanced(query) THEN 1 ELSE 0
        /\ ~InSeq(result.errors, "Unbalanced parentheses detected")
        /\ ~InSeq(result.errors, "Unbalanced quotes detected")
        /\ query = "SELECT * FROM users WHERE name = 'O" =>
              /\ result.is_valid
              /\ result.warnings = <<"Unbalanced quotes detected">>

\* both kinds of quotes are odd in number and there is one warning
C18_Witness ==
    /\ Returned
    /\ NumberOf(query, "'") % 2 = 1
    /\ NumberOf(query, "\"") % 2 = 1
    /\ Occurrences(result.warnings, "Unbalanced quotes detected") = 1
    /\ result.is_valid

CleanReport ==
    [is_valid |-> TRUE, is_destructive |-> FALSE, is_suspicious |-> FALSE,
     errors |-> <<>>, warnings |-> <<>>]

\* C19: a query that contains a command keyword, matches no destructive and
\* no injection pattern and has balanced parentheses and even quote counts
\* gets the report is_valid = true, is_destructive = false, is_suspicious =
\* false, no errors and no warnings; "SELECT * FROM users" is such a query.
C19_CleanQueryCleanReport ==
    Returned =>
        /\ (/\ HasCommandKeyword(query)
             /\ ~ParenthesesUnbalanced(query)
             /\ ~QuotesUnbalanced(query)
             /\ InjectionHits(query) = {}
             /\ DestructiveHits(query) = {}) => result = CleanReport
        /\ query = "SELECT * FROM users" => result = CleanReport

\* "SELECT * FROM users" has been validated
C19_Witness ==
    /\ Returned
    /\ query = "SELECT * FROM users"
    /\ HasCommandKeyword(query)
    /\ InjectionHits(query) = {}
    /\ DestructiveHits(query) = {}
    /\ result.is_valid
    /\ result.warnings = <<>>

\* C29: with allow_destructive=True a query that matches a destructive
\* pattern is valid if and only if its uppercased text holds one of SELECT,
\* INSERT, UPDATE, DELETE, CREATE, ALTER, DROP; without one the only error is
\* "No valid SQL command found"; in both cases every destructive match is
\* among the warnings, without the advice, and none is among the errors.
C29_DestructiveNeedsCommand ==
    (Returned /\ allow_destructive /\ DestructiveHits(query) # {}) =>
        /\ result.is_valid <=> HasCommandKeyword(query)
        /\ result.errors = IF HasCommandKeyword(query) THEN <<>>
                           ELSE <<"No valid SQL command found">>
        /\ result.is_destructive
        /\ \A k \in DestructiveHits(query) :
              /\ InSeq(result.warnings, DestructiveWarnings[k])
              /\ ~InSeq(result.warnings, DestructiveErrors[k])

\* TRUNCATE TABLE users is allowed as destructive and still not valid
C29_Witness ==
    /\ Returned
    /\ allow_destructive
    /\ query = "TRUNCATE TABLE users"
    /\ ~result.is_valid
    /\ result.errors = <<"No valid SQL command found">>
    /\ result.warnings = <<DestructiveWarning(DangerousTruncate)>>

---------------------------------------------------------------------------
(* Properties of SQLBuddy.execute_query                                    *)

\* C1: with validate=True the query reaches the connector if and only if the
\* report for (query, allow_destructive) has is_valid true: an invalid query
\* returns success=False with an error and the connector is never called; a
\* valid one is executed even with warnings or is_suspicious set.
C1_ExecutesIffValid ==
    (Returned /\ validate) =>
        LET rejected == \/ IsBlank(query)
                        \/ (~allow_destructive /\ DestructiveHits(query) # {})
                        \/ ~HasCommandKeyword(query)
        IN  /\ result.validation.is_valid <=> ~rejected
            /\ result.validation.is_valid <=> connector_calls = <<ConnectorCall(query)>>
            /\ ~result.validation.is_valid =>
                 /\ connector_calls = <<>>
                 /\ ~result.success
                 /\ result.error # None

\* a valid query with warnings and is_suspicious set has been executed
C1_Witness ==
    /\ Returned
    /\ validate
    /\ result.validation.is_valid
    /\ result.validation.is_suspicious
    /\ Len(result.validation.warnings) >= 2
    /\ Len(connector_calls) = 1
    /\ result.success

\* C27: execute_query returns its result dictionary in every case; success
\* is true if and only if the connector was called and raised nothing; with
\* success the error is None, without it the error is set, data is None and
\* row_count is 0; the connector is called once at most.
C27_OutcomeAsValue ==
    Returned =>
        /\ {"query", "success", "data", "row_count", "error"} \subseteq DOMAIN result
        /\ result.query = query
        /\ result.success <=> trail = <<"execute_query">>
        /\ result.success => result.error = None
        /\ ~result.success =>
              /\ result.error # None
              /\ result.data = None
              /\ result.row_count = 0
        /\ Len(connector_calls) <= 1
        /\ Len(trail) = Len(connector_calls)

\* a query that passed the validation failed in the database
C27_Witness ==
    /\ Returned
    /\ validate
    /\ result.validation.is_valid
    /\ trail = <<"execute_query!">>
    /\ ~result.success
    /\ result.error = Some("(1064, 'You have an error in your SQL syntax')")

---------------------------------------------------------------------------
(* Properties of _parse_response, stated on the text of the response       *)

\* a fence and the tag sql, in any case, start at position i
SqlTagAt(s, i) ==
    /\ TextAt(s, i, Fence)
    /\ i + 5 <= Len(s)
    /\ lower(SubSeq(s, i + 3, i + 5)) = "sql"

\* the starts of the fenced sql blocks: a tag with a closing fence after it
SqlBlockStarts(s) ==
    {i \in 1..Len(s) :
        SqlTagAt(s, i) /\ \E j \in (i + 6)..Len(s) : TextAt(s, j, Fence)}

\* the text between the tag of the first block and the first fence after it
FirstBlockInterior(s) ==
    LET i == SetMin(SqlBlockStarts(s))
        j == SetMin({x \in (i + 6)..Len(s) : TextAt(s, x, Fence)})
    IN  SubSeq(s, i + 6, j - 1)

\* x without its leading and trailing whitespace
Trimmed(x) ==
    LET a == SkipWhile(x, 1, SpaceChars)
        inked == {k \in 1..Len(x) : Ch(x, k) \notin SpaceChars}
    IN  IF a > Len(x) THEN "" ELSE SubSeq(x, a, SetMax(inked))

\* C10: for every response with at least one fenced block tagged sql (in any
\* case, over one or several lines) the query is exactly the trimmed interior
\* of the first such block; later blocks and the text outside the block are
\* ignored, so that the call fails exactly when that interior is empty.
C10_FirstFencedBlock ==
    (Returned /\ SqlBlockStarts(response) # {}) =>
        LET interior == Trimmed(FirstBlockInterior(response))
        IN  /\ result.raised <=> interior = ""
            /\ ~result.raised => result.value.query = interior

\* a response with text before an upper-case tagged block of two lines
C10_Witness ==
    /\ Returned
    /\ Cardinality(SqlBlockStarts(response)) = 1
    /\ ~startswith(response, Fence)
    /\ ~result.raised
    /\ result.value.query = "SELECT a\nFROM t;"

\* the positions where the lines of s start
LineStarts(s) == {1} \cup {i + 1 : i \in {x \in 1..Len(s) : Ch(s, x) = "\n"}}

\* the position of the last character of the line that starts at p
LineEnd(s, p) ==
    SetMin({x \in p..(Len(s) + 1) : x = Len(s) + 1 \/ Ch(s, x) = "\n"}) - 1

LineText(s, p) == SubSeq(s, p, LineEnd(s, p))

StatementKeywords == {"select", "insert", "update", "delete", "create"}

HasStatementKeyword(line) == \E kw \in StatementKeywords : contains(lower(line), kw)

\* the starts of the lines that hold a statement keyword
TriggerStarts(s) == {p \in LineStarts(s) : HasStatementKeyword(LineText(s, p))}

\* from the first line with a statement keyword to the end of the first line
\* from there on whose trimmed text ends with ';', or to the end of the text
FallbackSpan(s) ==
    LET t == SetMin(TriggerStarts(s))
        terms == {p \in LineStarts(s) :
                     p >= t /\ endswith(Trimmed(LineText(s, p)), ";")}
        last == IF terms = {} THEN Len(s) ELSE LineEnd(s, SetMin(terms))
    IN  SubSeq(s, t, last)

\* C11: for every response with no fenced sql block, the query is the trimmed
\* span of whole lines that starts at the first line whose lowercase form
\* contains select, insert, update, delete or create and ends with the first
\* line from there on whose trimmed text ends with ';', or with the last line
\* of the text when there is no such line; nothing before the first and
\* nothing after the last line of the span is part of it.
C11_FallbackSpan ==
    (Returned /\ SqlBlockStarts(response) = {} /\ TriggerStarts(response) # {}) =>
        /\ ~result.raised
        /\ result.value.query = Trimmed(FallbackSpan(response))

\* a response without a block: a line before the statement and lines after it
C11_Witness ==
    /\ Returned
    /\ response = "intro\nSELECT a\nFROM t;\nmore\n"
    /\ ~result.raised
    /\ result.value.query = "SELECT a\nFROM t;"


\* C12: a response with neither a fenced sql block nor a line that holds a
\* statement keyword makes the call raise the error and return no result; no
\* result the call returns has the empty string as its query.
C12_NoSqlRaises ==
    Returned =>
        /\ (SqlBlockStarts(response) = {} /\ TriggerStarts(response) = {}) =>
              /\ result.raised
              /\ "value" \notin DOMAIN result
              /\ result.error = "Failed to extract SQL query from LLM response. "
                                \o "The response may be in an unexpected format."
        /\ ~result.raised => result.value.query # ""

\* a response with section headers and text but no SQL has been refused
C12_Witness ==
    /\ Returned
    /\ response # ""
    /\ contains(response, "TABLES USED:")
    /\ SqlBlockStarts(response) = {}
    /\ TriggerStarts(response) = {}
    /\ result.raised

\* C13: the call raises only when neither strategy can extract SQL: whenever
\* the response has a line that holds a statement keyword, the call returns a
\* result with a non-empty query, also when the response has a fenced sql
\* block whose interior is empty.
C13_RaisesOnlyWithoutSql ==
    (Returned /\ TriggerStarts(response) # {}) =>
        /\ ~result.raised
        /\ result.value.query # ""

\* C14: tables_used holds the lines of the TABLES USED: section with their
\* bullet markers stripped, lines that are empty or made of bullet markers
\* only being discarded: no element of tables_used is the empty string or
\* begins with '-' or with whitespace.
C14_TableNamesClean ==
    (Returned /\ ~result.raised) =>
        \A k \in 1..Len(result.value.tables_used) :
            LET name == result.value.tables_used[k]
            IN  /\ name # ""
                /\ Ch(name, 1) \notin ({"-"} \cup SpaceChars)

\* the header h (given in upper case) stands at position i, in any case
HeaderAt(s, i, h) ==
    /\ i + Len(h) - 1 <= Len(s)
    /\ upper(SubSeq(s, i, i + Len(h) - 1)) = h

\* the trimmed text between the first header h and the first header of stops
\* after it, or the end of the text; the empty string when h is absent
SectionText(s, h, stops) ==
    LET at == {i \in 1..Len(s) : HeaderAt(s, i, h)}
    IN  IF at = {} THEN ""
        ELSE LET b == SetMin(at) + Len(h)
                 e == SetMin({x \in b..(Len(s) + 1) :
                                 \/ x = Len(s) + 1
                                 \/ \E st \in stops : HeaderAt(s, x, st)})
             IN  Trimmed(SubSeq(s, b, e - 1))

\* a query can be extracted: a first block with text in it, or no block and
\* a line with a statement keyword
QueryExtractable(s) ==
    IF SqlBlockStarts(s) # {} THEN Trimmed(FirstBlockInterior(s)) # ""
    ELSE TriggerStarts(s) # {}

\* C15: in every successful parse the explanation is the trimmed text from
\* the EXPLANATION: header to the next TABLES USED: or POTENTIAL
\* OPTIMIZATIONS: header or the end of the text, and optimizations is the
\* trimmed text from the POTENTIAL OPTIMIZATIONS: header to the end of the
\* text; headers match in any case, each section is found independently of
\* the others and of their order, and an absent header gives the empty
\* string and never an error.
C15_SectionTexts ==
    Returned =>
        /\ QueryExtractable(response) => ~result.raised
        /\ ~result.raised =>
              /\ result.value.explanation =
                    SectionText(response, "EXPLANATION:",
                                {"TABLES USED:", "POTENTIAL OPTIMIZATIONS:"})
              /\ result.value.optimizations =
                    SectionText(response, "POTENTIAL OPTIMIZATIONS:", {})
              /\ ~contains(upper(response), "EXPLANATION:") =>
                    result.value.explanation = ""
              /\ ~contains(upper(response), "POTENTIAL OPTIMIZATIONS:") =>
                    result.value.optimizations = ""

\* the sections stand in another order than the prompt asks for
C15_Witness ==
    /\ Returned
    /\ ~result.raised
    /\ startswith(response, "POTENTIAL OPTIMIZATIONS:")
    /\ result.value.explanation = "b"
    /\ result.value.optimizations = "a\nEXPLANATION: b\nTABLES USED:\nc\nselect 1"

---------------------------------------------------------------------------
(* Properties of the generation calls                                      *)

\* C16: in every result raw_response is the text the model returned,
\* unchanged, whichever strategy extracted the query, and it still is after
\* generate_multiple_queries added variation_number and after generate_query
\* or generate_multiple_queries of SQLBuddy added validation.
C16_RawResponseKept ==
    Returned =>
        /\ "value" \in DOMAIN result =>
              /\ result.value.raw_response = llm_responses[1]
              /\ validate <=> "validation" \in DOMAIN result.value
        /\ "variations" \in DOMAIN result =>
              /\ Len(result.variations) = Len(llm_responses)
              /\ \A i \in 1..Len(result.variations) :
                    LET variation == result.variations[i]
                    IN  /\ variation.variation_number = i
                        /\ QueryExtractable(llm_responses[i])
                              <=> "query" \in DOMAIN variation
                        /\ "query" \in DOMAIN variation =>
                              /\ variation.raw_response = llm_responses[i]
                              /\ validate <=> "validation" \in DOMAIN variation

\* two variations with number and validation: one from a fenced block in a
\* text with whitespace around it, one from the fallback
C16_Witness ==
    /\ Returned
    /\ "variations" \in DOMAIN result
    /\ Len(result.variations) = 2
    /\ \A i \in 1..2 : DOMAIN result.variations[i] =
           {"query", "explanation", "tables_used", "optimizations",
            "raw_response", "variation_number", "validation"}
    /\ Trimmed(llm_responses[1]) # llm_responses[1]
    /\ SqlBlockStarts(llm_responses[1]) # {}
    /\ SqlBlockStarts(llm_responses[2]) = {}
    /\ result.variations[1].raw_response = llm_responses[1]

---------------------------------------------------------------------------
(* Properties of concurrent calls of validate_query                        *)

\* C20: validate_query is a function of (query, allow_destructive): two
\* calls with the same arguments return equal reports, whatever calls came
\* before or run at the same time in another thread; every call returns a
\* dictionary of its own, so that a report a caller changed leaves the other
\* reports as they were returned; and no call changes the pattern tables of
\* the class.
C20_PureFunction ==
    /\ \A i, j \in 1..Len(returned) :
          (/\ returned[i].query = returned[j].query
           /\ returned[i].allow_destructive = returned[j].allow_destructive)
              => returned[i].value = returned[j].value
    /\ \A i, j \in 1..Len(returned) :
          i # j => returned[i].result # returned[j].result
    /\ \A i \in 1..Len(returned) :
          /\ ~returned[i].changed => heap[returned[i].result] = returned[i].value
          /\ \A t \in Threads : frames[t].result # returned[i].result
    /\ pattern_tables = ClassTables

\* two calls with the same arguments returned a non-trivial report; the
\* caller of the first changed its report and the second is as returned
C20_Witness ==
    /\ Len(returned) = 2
    /\ returned[1].query = "DROP TABLE users;"
    /\ returned[2].query = returned[1].query
    /\ returned[2].allow_destructive = returned[1].allow_destructive
    /\ returned[1].changed
    /\ ~returned[2].changed
    /\ heap[returned[1].result] # returned[1].value
    /\ heap[returned[2].result] = returned[1].value
    /\ Len(returned[2].value.warnings) = 1

---------------------------------------------------------------------------
(* Properties of batch generation                                          *)

\* the i-th call of generate_query inside generate_multiple_queries failed:
\* the client raised, or no statement could be taken from its text
VariationFailed(i) == i \in llm_errors \/ ~QueryExtractable(llm_responses[i])

\* C21: generate_multiple_queries with num_variations = n (one call of the
\* client per variation) returns exactly n entries numbered 1..n in order; a
\* variation that failed is an entry with an error and no query, whatever
\* came before it, and every other entry has a query; SQLBuddy attaches a
\* validation report to exactly the entries with a query when it validates,
\* to none otherwise, and does not raise, also when a report says invalid.
C21_BatchNeverAborts ==
    (Returned /\ "variations" \in DOMAIN result) =>
        /\ ~result.raised
        /\ Len(result.variations) = Len(llm_responses)
        /\ \A i \in 1..Len(llm_responses) :
              /\ i \in DOMAIN result.variations
              /\ result.variations[i].variation_number = i
              /\ IF VariationFailed(i)
                 THEN DOMAIN result.variations[i] = {"variation_number", "error"}
                 ELSE /\ "query" \in DOMAIN result.variations[i]
                      /\ "error" \notin DOMAIN result.variations[i]
                      /\ validate <=> "validation" \in DOMAIN result.variations[i]

\* the client raised for the first variation, and the second one is there
\* with a query and a report that says the query is not valid
C21_Witness ==
    /\ Returned
    /\ "variations" \in DOMAIN result
    /\ Len(result.variations) = 2
    /\ 1 \in llm_errors
    /\ "error" \in DOMAIN result.variations[1]
    /\ "validation" \in DOMAIN result.variations[2]
    /\ ~result.variations[2].validation.is_valid

---------------------------------------------------------------------------
(* Properties of DatabaseConnector                                         *)

\* the two connectors were constructed with the same arguments apart from
\* the password
DifferOnlyInPassword ==
    /\ connector.password # twin.password
    /\ \A k \in {"db_type", "host", "port", "user", "database"} :
           connector[k] = twin[k]

\* C22: the dictionary of get_connection_info has no password entry, and
\* for two connectors that differ only in the password every entry of it
\* other than is_connected, and the text of repr, are the same.
C22_PasswordNotExposed ==
    /\ \A c \in {"connector", "twin"} :
          exposed[c].info # None => "password" \notin DOMAIN exposed[c].info[1]
    /\ DifferOnlyInPassword =>
          /\ (exposed.connector.info # None /\ exposed.twin.info # None) =>
                /\ DOMAIN exposed.connector.info[1] = DOMAIN exposed.twin.info[1]
                /\ \A k \in DOMAIN exposed.connector.info[1] \ {"is_connected"} :
                       exposed.connector.info[1][k] = exposed.twin.info[1][k]
          /\ (exposed.connector.repr # None /\ exposed.twin.repr # None) =>
                exposed.connector.repr = exposed.twin.repr

\* both were asked for both, the passwords differ, and the probes differ
C22_Witness ==
    /\ DifferOnlyInPassword
    /\ \A c \in {"connector", "twin"} :
          exposed[c].info # None /\ exposed[c].repr # None
    /\ exposed.connector.info[1].is_connected
    /\ ~exposed.twin.info[1].is_connected
    /\ connector.password = "secret"

---------------------------------------------------------------------------
(* Properties of SchemaExtractor                                           *)

\* a call was made in this step
CallMade == call'.turn # call.turn

\* the step is a call that reads the schema through the cache
CachedRead ==
    /\ CallMade
    /\ \/ call'.name \in {"get_table_info", "get_schema_summary",
                          "format_schema_for_llm"}
       \/ call'.name = "extract_full_schema" /\ call'.use_cache

\* what a call that reads the schema returns for a schema
ReadOf(schema, c) ==
    IF c.name = "get_table_info" THEN table_info(schema, c.table_name)
    ELSE IF c.name = "get_schema_summary" THEN schema_summary(schema)
    ELSE IF c.name = "format_schema_for_llm" THEN format_schema(schema)
    ELSE schema

\* C23: with a schema in the cache, extract_full_schema(use_cache=True),
\* get_table_info, get_schema_summary and format_schema_for_llm return what
\* the cached schema says, issue no query and leave the cache alone;
\* clear_cache sets the cache to None; a reading call on an empty cache and
\* extract_full_schema(use_cache=False) query the database and, unless a
\* query fails, put the schema of the database in the cache; a call that
\* fails leaves the cache as it was.
C23_SchemaCached ==
    [][/\ (CachedRead /\ schema_cache # None) =>
              /\ connector_calls' = <<>>
              /\ schema_cache' = schema_cache
              /\ result' = [raised |-> FALSE,
                            value |-> ReadOf(schema_cache[1], call')]
       /\ (CallMade /\ call'.name = "clear_cache") => schema_cache' = None
       /\ (CallMade /\ call'.name # "clear_cache"
              /\ ~(CachedRead /\ schema_cache # None)) =>
              /\ connector_calls' # <<>>
              /\ ~result'.raised =>
                    /\ schema_cache' = Some(NewSchema(connector, catalog))
                    /\ result'.value = ReadOf(schema_cache'[1], call')
       /\ (CallMade /\ result'.raised) => schema_cache' = schema_cache
      ]_vars

\* a table was read from the cache, without a query, after the database
\* lost its tables
C23_Witness ==
    /\ call.name = "get_table_info"
    /\ connector_calls = <<>>
    /\ schema_cache # None
    /\ catalog = <<>>
    /\ schema_cache[1].tables # <<>>
    /\ result = [raised |-> FALSE, value |-> Some(schema_cache[1].tables[1])]

---------------------------------------------------------------------------
(* Properties of sanitize_query                                            *)

\* s holds a block comment: "/*" and, behind it, "*/"
HasBlockComment(s) ==
    \E i \in 1..Len(s), j \in 1..Len(s) :
        /\ i + 2 <= j
        /\ SubSeq(s, i, i + 1) = "/*"
        /\ SubSeq(s, j, j + 1) = "*/"

\* C24: the text sanitize_query returns holds no "--" and no block comment,
\* has no whitespace at either end, does not end with ";", and is returned
\* unchanged when it is sanitized again.
C24_SanitizedClean ==
    Returned =>
        /\ ~contains(result, "--")
        /\ ~HasBlockComment(result)
        /\ strip(result) = result
        /\ ~endswith(result, ";")
        /\ sanitize_query(result) = result

---------------------------------------------------------------------------
(* Properties of the calls on a DatabaseConnector                          *)

\* the positions of the last call's calls of the driver named in ops
TrailAt(ops) == {i \in 1..Len(trail) : trail[i] \in ops}

\* C25: in execute_query the connection is probed or opened before the
\* cursor is taken; when the statement was run, exactly one of commit and
\* rollback is called after it, commit if and only if the statement (with
\* its fetch) raised nothing, and after a rollback the caller gets the
\* exception of the statement; the cursor is closed last on both paths.
C25_OneTransactionStep ==
    (call.name = "execute_query" /\ TrailAt({"cursor"}) # {}) =>
        LET cursor == SetMin(TrailAt({"cursor"}))
            statement == TrailAt({"execute", "execute!"})
            commits == TrailAt({"commit", "commit!"})
            rollbacks == TrailAt({"rollback", "rollback!"})
        IN  /\ \A i \in TrailAt({"ping", "ping!", "connect", "connect!"}) : i < cursor
            /\ connector._connection # None
            /\ Cardinality(statement) = 1
            /\ \A i \in statement : cursor < i
            /\ Cardinality(commits \cup rollbacks) = 1
            /\ \A i \in commits \cup rollbacks : \A j \in statement : j < i
            /\ commits # {} <=> TrailAt({"execute"}) # {}
            /\ commits # {} => ~result.raised
            /\ rollbacks # {} => result.raised /\ result.error = ExecuteError
            /\ trail[Len(trail)] = "cursor.close"
            /\ Cardinality(TrailAt({"cursor.close"})) = 1

\* the connection the connector holds, when close() was not called on it
HeldOpen ==
    IF connector # None /\ connector._connection # None
          /\ ~connections[connector._connection[1]].closed
    THEN {connector._connection[1]} ELSE {}

\* C26: when disconnect or test_connection has returned, _connection is
\* None and close() was called on every connection the connector opened; a
\* call that makes the connector hold another connection, or none, has
\* closed the one it held; and disconnect on a connector without a
\* connection changes nothing and calls nothing.
C26_NoConnectionLeak ==
    [][CallMade =>
          /\ call'.name \in {"disconnect", "test_connection", "__exit__"} =>
                /\ connector'._connection = None
                /\ \A i \in 1..Len(connections') : connections'[i].closed
          /\ \A i \in HeldOpen :
                connector'._connection # connector._connection =>
                    connections'[i].closed
          /\ (call'.name = "disconnect" /\ connector._connection = None) =>
                /\ connector' = connector
                /\ connections' = connections
                /\ trail' = <<>>
      ]_vars

---------------------------------------------------------------------------
(* Properties of SQLBuddy.generate_and_execute                             *)

\* C28: in generate_and_execute with validate=True the report in the
\* generation result and the report in the execution result have the same
\* is_valid, whatever allow_destructive is, and with allow_destructive=False
\* a generated query that matches a destructive pattern does not reach the
\* connector.
C28_ReportsAgree ==
    (Returned /\ validate /\ "execution" \in DOMAIN result) =>
        /\ "validation" \in DOMAIN result.generation
        /\ "validation" \in DOMAIN result.execution
        /\ result.generation.validation.is_valid
              = result.execution.validation.is_valid
        /\ (~allow_destructive /\ DestructiveHits(result.generation.query) # {}) =>
              connector_calls = <<>>


\* the two attributes of a SQLBuddy and the cache of its extractor agree:
\* schema and text are _cached_schema and _cached_schema_formatted
CachesAgree(schema, text, cache) ==
    /\ (schema = None) <=> (text = None)
    /\ schema # None =>
           /\ text = Some(format_schema(schema[1]))
           /\ cache = schema

\* C30: after every call of connect, load_schema, get_schema_summary,
\* get_table_info and generate_query on a SQLBuddy, also one whose
\* extraction fails, _cached_schema and _cached_schema_formatted are both
\* unset or both set, the text is the formatting of exactly that schema and
\* the schema is the one in the cache of the schema extractor; and a call of
\* load_schema without force_reload that finds a schema sends no query and
\* changes none of them
C30_SchemaCacheConsistent ==
    [][/\ \E schema \in {cached_schema'}, text \in {cached_schema_formatted'},
             cache \in {schema_cache'} :
              CachesAgree(schema, text, cache)
       /\ (/\ CallMade
           /\ call'.name = "load_schema"
           /\ call'.use_cache
           /\ cached_schema # None)
          => /\ connector_calls' = <<>>
             /\ result' = [raised |-> FALSE, value |-> cached_schema[1]]
             /\ UNCHANGED <<cached_schema, cached_schema_formatted,
                            schema_cache>>]_vars

\* a forced reload failed after the tables of the database changed: the
\* SQLBuddy still holds the schema it loaded before, and its text
C30_Witness ==
    /\ call.name = "load_schema"
    /\ ~call.use_cache
    /\ result.raised
    /\ connector_calls # <<>>
    /\ cached_schema # None
    /\ cached_schema[1] # NewSchema(connector, catalog)
    /\ cached_schema_formatted = Some(format_schema(cached_schema[1]))

=============================================================================
